---- MODULE Spec2Model ----
(***************************************************************************)
(* X3DH demo (gew1nn/x3dh-demo): the key agreement of cmd/alice and        *)
(* cmd/bob, the Redis-backed mailbox of cmd/server and the chat front end  *)
(* of chat.go, as one state machine.                                       *)
(*                                                                         *)
(* Modelling conventions                                                   *)
(*  - A [32]byte value is a sequence of KeySize naturals below 256.        *)
(*  - X25519 is a toy Diffie-Hellman group: the multiplicative group of    *)
(*    the integers modulo the prime GroupP with generator GroupG; a byte   *)
(*    string is read little-endian, as curve25519 does; a string whose     *)
(*    value is 0 is the point on which ECDH fails.                         *)
(*  - SHA-256, Ed25519 and ChaCha20-Poly1305 outputs are symbolic terms    *)
(*    ("blobs", records [kind, a, b, c] of byte strings): a digest names   *)
(*    its preimage, a signature its signer and message, a sealed box the   *)
(*    preimage of its key, its nonce and its plaintext.                    *)
(*  - A hex string that carries an X25519 key is a sequence of             *)
(*    one-character strings.  A string that carries a blob is the pair of  *)
(*    its longest hex-decodable prefix (as the blob it decodes to) and the *)
(*    characters that follow it.                                           *)
(*  - crypto/rand never repeats: every key pair and nonce is made from a   *)
(*    seed of its own, numbered by the run that draws it.                  *)
(*  - A client's computation between two requests to the server touches    *)
(*    nothing shared; it is one step together with the request before it.  *)
(***************************************************************************)
EXTENDS Integers, Sequences, FiniteSets, TLC

\* ------------------------------------------------------------------ bounds
MaxSessions == 1
MaxRegs == 1
MaxForged == 1
MaxChat == 3
MaxSeed == 11
MaxResend == 1
MaxApi == 2
MaxRuns == 2
MaxKeyGens == 2

\* ------------------------------------------------- constants of the program
KeySize == 4
NonceSize == 12
TagSize == 16
SignatureSize == 64
GroupP == 227
GroupG == 2

Users == {"alice", "bob"}

\* ------------------------------------------------------------------- bytes
Zero32 == [i \in 1..KeySize |-> 0]

\* the [32]byte holding the small number n, little-endian
Le32(n) == [i \in 1..KeySize |-> IF i = 1 THEN n ELSE 0]

RECURSIVE LeMod(_, _)
\* the little-endian value of the byte string b, modulo m
LeMod(b, m) == IF b = <<>> THEN 0 ELSE (b[1] + 256 * LeMod(Tail(b), m)) % m

RECURSIVE PowMod(_, _, _)
\* x^e modulo m, by squaring
PowMod(x, e, m) ==
    IF e = 0 THEN 1 % m
    ELSE IF e % 2 = 0 THEN PowMod((x * x) % m, e \div 2, m)
    ELSE (x * PowMod((x * x) % m, e \div 2, m)) % m

\* copy(out[:], raw) into a zeroed [32]byte: Go copies min(len(out), len(raw)) bytes
Copy32(raw) == [i \in 1..KeySize |-> IF i <= Len(raw) THEN raw[i] ELSE 0]

RECURSIVE Concat(_)
Concat(parts) == IF parts = <<>> THEN <<>> ELSE Head(parts) \o Concat(Tail(parts))

\* ------------------------------------------------------------ encoding/hex
HexDigits == <<"0", "1", "2", "3", "4", "5", "6", "7", "8", "9", "a", "b", "c", "d", "e", "f">>
UpperDigits == <<"0", "1", "2", "3", "4", "5", "6", "7", "8", "9", "A", "B", "C", "D", "E", "F">>

\* hex.fromHexChar: the value of a hex digit, 16 for any other character
FromHexChar(c) ==
    CASE c = "0" -> 0 [] c = "1" -> 1 [] c = "2" -> 2 [] c = "3" -> 3 [] c = "4" -> 4
      [] c = "5" -> 5 [] c = "6" -> 6 [] c = "7" -> 7 [] c = "8" -> 8 [] c = "9" -> 9
      [] c = "a" -> 10 [] c = "b" -> 11 [] c = "c" -> 12 [] c = "d" -> 13 [] c = "e" -> 14
      [] c = "f" -> 15 [] c = "A" -> 10 [] c = "B" -> 11 [] c = "C" -> 12 [] c = "D" -> 13
      [] c = "E" -> 14 [] c = "F" -> 15 [] OTHER -> 16

\* hex.EncodeToString on concrete bytes: two lower-case digits per byte
EncodeToString(b) ==
    [i \in 1..(2 * Len(b)) |->
        IF i % 2 = 1 THEN HexDigits[(b[(i + 1) \div 2] \div 16) + 1]
        ELSE HexDigits[(b[i \div 2] % 16) + 1]]

\* the number of leading character pairs of s that are both hex digits
RECURSIVE HexPairs(_)
HexPairs(s) ==
    IF Len(s) < 2 \/ FromHexChar(s[1]) = 16 \/ FromHexChar(s[2]) = 16 THEN 0
    ELSE 1 + HexPairs(SubSeq(s, 3, Len(s)))

\* hex.DecodeString: the bytes decoded before the first error, and whether
\* there was one (an invalid character, or an odd length)
DecodeString(s) ==
    LET n == HexPairs(s) IN
    [raw |-> [i \in 1..n |-> 16 * FromHexChar(s[2 * i - 1]) + FromHexChar(s[2 * i])],
     err |-> 2 * n # Len(s)]

\* ------------------------------------------- encoding/json of a []byte field
\* json.Marshal writes a []byte as standard base64; a character is modelled
\* by its index in the alphabet, 0..63, and the padding "=" by Pad64
Pad64 == 64

\* the k-th character of the encoding of b: three bytes make a 24-bit group
\* that is written as four characters of six bits, and a character that no
\* byte of b reaches into is padding
Base64Char(b, k) ==
    LET g == (k + 3) \div 4
        j == (k - 1) % 4
        byte(i) == IF i <= Len(b) THEN b[i] ELSE 0
        val == 65536 * byte(3 * g - 2) + 256 * byte(3 * g - 1) + byte(3 * g)
    IN IF 3 * (g - 1) + (IF j = 0 THEN 1 ELSE j) > Len(b) THEN Pad64
       ELSE (val \div 64^(3 - j)) % 64

\* a faulty variant of Base64Encode: a trailing group of fewer than three
\* bytes is left out
Base64Encode_WholeGroups(b) == [k \in 1..(4 * (Len(b) \div 3)) |-> Base64Char(b, k)]

\* base64.StdEncoding.EncodeToString
Base64Encode(b) == [k \in 1..(4 * ((Len(b) + 2) \div 3)) |-> Base64Char(b, k)]

\* base64.StdEncoding.DecodeString: an error unless the length is a multiple
\* of four with at most two padding characters, all at the end; four
\* characters make a 24-bit group that is read as three bytes
Base64Decode(s) ==
    LET isData(x) == x # Pad64
        data == SelectSeq(s, isData)
        pad == Len(s) - Len(data)
        ok == /\ Len(s) % 4 = 0
              /\ pad <= 2
              /\ SubSeq(s, 1, Len(data)) = data
              /\ Len(data) % 4 # 1
        char(i) == IF i <= Len(data) THEN data[i] ELSE 0
        val(g) == 262144 * char(4 * g - 3) + 4096 * char(4 * g - 2)
                    + 64 * char(4 * g - 1) + char(4 * g)
    IN IF ~ok THEN [raw |-> <<>>, err |-> TRUE]
       ELSE [raw |-> [k \in 1..((3 * Len(data)) \div 4) |->
                        (val((k + 2) \div 3) \div 256^(2 - ((k - 1) % 3))) % 256],
             err |-> FALSE]

\* ------------------------------------------------------------------- blobs
NoBytes == <<>>
BytesBlob(b) == [kind |-> "bytes", a |-> b, b |-> NoBytes, c |-> NoBytes]
EmptyBlob == BytesBlob(NoBytes)

\* len() of the byte string a blob stands for
BlobLen(x) ==
    CASE x.kind = "bytes" -> Len(x.a)
      [] x.kind = "sha256" -> KeySize
      [] x.kind = "sig" -> SignatureSize
      [] x.kind = "aead" -> Len(x.c) + TagSize

\* hex.EncodeToString / hex.DecodeString on a string that carries a blob
HexEncodeBlob(x) == [hexOf |-> x, junk |-> <<>>]
HexDecodeBlob(s) == [raw |-> s.hexOf, err |-> s.junk # <<>>]
\* a string of non-hex text: nothing of it decodes
TextString(chars) == [hexOf |-> EmptyBlob, junk |-> chars]

\* ---------------------------------------------------- crypto/ecdh (X25519)
NilKey == <<>>

\* curve.NewPrivateKey: nil (and an error) unless the slice has 32 bytes
NewPrivateKey(b) == IF Len(b) = KeySize THEN b ELSE NilKey

\* the scalar of a private key: X25519 clamps it, so it is never zero
Scalar(priv) == 1 + LeMod(priv, GroupP - 2)

\* priv.PublicKey().Bytes() copied into a [32]byte
PublicKeyOf(priv) == Le32(PowMod(GroupG, Scalar(priv), GroupP))

\* x3dh.GenKeyPair with the randomness seed
GenKeyPair(seed) == [priv |-> Le32(seed), pub |-> PublicKeyOf(Le32(seed))]

\* a faulty variant of DH: the caller's own public key in place of the peer's
DH_OwnPublic(priv, pub32) ==
    IF priv = NilKey THEN [out |-> Zero32, err |-> TRUE]
    ELSE LET shared == PowMod(PowMod(GroupG, Scalar(priv), GroupP), Scalar(priv), GroupP) IN
         IF shared = 0 THEN [out |-> Zero32, err |-> TRUE]
         ELSE [out |-> Le32(shared), err |-> FALSE]

\* a faulty variant of DH: the all-zero result of ECDH is returned as a value
DH_Unchecked(priv, pub32) ==
    IF priv = NilKey THEN [out |-> Zero32, err |-> TRUE]
    ELSE [out |-> Le32(PowMod(LeMod(pub32, GroupP), Scalar(priv), GroupP)), err |-> FALSE]

\* x3dh.DH: an error for a nil private key and when ECDH yields the zero value
DH(priv, pub32) ==
    IF priv = NilKey THEN [out |-> Zero32, err |-> TRUE]
    ELSE LET shared == PowMod(LeMod(pub32, GroupP), Scalar(priv), GroupP) IN
         IF shared = 0 THEN [out |-> Zero32, err |-> TRUE]
         ELSE [out |-> Le32(shared), err |-> FALSE]

\* a faulty variant of KDF: the hash is started anew for every part
KDF_LastOnly(parts) ==
    [kind |-> "sha256", a |-> IF parts = <<>> THEN <<>> ELSE parts[Len(parts)],
     b |-> NoBytes, c |-> NoBytes]

\* x3dh.KDF: SHA-256 over the parts written in order
KDF(parts) == [kind |-> "sha256", a |-> Concat(parts), b |-> NoBytes, c |-> NoBytes]

\* ------------------------------------------------------------------ Ed25519
\* ed25519.NewKeyFromSeed: the private key is seed || public key
EdPublicOf(seed32) == [i \in 1..KeySize |-> IF i = 2 THEN 237 ELSE seed32[i]]
NewKeyFromSeed(seed32) == seed32 \o EdPublicOf(seed32)
EdPublic(edPriv) == SubSeq(edPriv, KeySize + 1, 2 * KeySize)

\* ed25519.Sign
Sign(edPriv, message) == [kind |-> "sig", a |-> EdPublic(edPriv), b |-> message, c |-> NoBytes]

\* a faulty variant of Verify: the signer is checked, the message is not
Verify_AnyMessage(pub, message, sig) ==
    IF BlobLen(pub) # KeySize THEN [ok |-> FALSE, panic |-> TRUE]
    ELSE [ok |-> pub.kind = "bytes" /\ sig.kind = "sig" /\ sig.a = pub.a,
          panic |-> FALSE]

\* ed25519.Verify: panics on a public key that is not 32 bytes long
Verify(pub, message, sig) ==
    IF BlobLen(pub) # KeySize THEN [ok |-> FALSE, panic |-> TRUE]
    ELSE [ok |-> /\ pub.kind = "bytes"
                 /\ sig.kind = "sig"
                 /\ sig.a = pub.a
                 /\ sig.b = message,
          panic |-> FALSE]

\* -------------------------------------------------------- ChaCha20-Poly1305
\* aead.Seal(nil, nonce, plaintext, nil) under the key with preimage key.a
Seal(key, nonce, plaintext) == [kind |-> "aead", a |-> key.a, b |-> nonce, c |-> plaintext]

\* aead.Open(nil, nonce, ciphertext, nil): panics on a nonce that is not 12
\* bytes long, fails unless the box was sealed under this key and nonce
Open(key, nonce, ciphertext) ==
    IF BlobLen(nonce) # NonceSize THEN [pt |-> NoBytes, err |-> TRUE, panic |-> TRUE]
    ELSE IF /\ ciphertext.kind = "aead"
            /\ nonce.kind = "bytes"
            /\ ciphertext.a = key.a
            /\ ciphertext.b = nonce.a
         THEN [pt |-> ciphertext.c, err |-> FALSE, panic |-> FALSE]
         ELSE [pt |-> NoBytes, err |-> TRUE, panic |-> FALSE]

\* ------------------------------------------- encode32, decode32 of internal/x3dh
x3dh_encode32(pk) == EncodeToString(pk)

\* a faulty variant of x3dh_decode32: the length of what was decoded is not
\* looked at
x3dh_decode32_AnyLength(s) ==
    LET d == DecodeString(s) IN
    IF d.err THEN [out |-> Zero32, err |-> TRUE]
    ELSE [out |-> Copy32(d.raw), err |-> FALSE]

\* decode32 of internal/x3dh: an error on a hex error and on any length but 32
x3dh_decode32(s) ==
    LET d == DecodeString(s) IN
    IF d.err THEN [out |-> Zero32, err |-> TRUE]
    ELSE IF Len(d.raw) # KeySize THEN [out |-> Zero32, err |-> TRUE]
    ELSE [out |-> Copy32(d.raw), err |-> FALSE]

\* ValidatePublicKey: TRUE when it returns an error
ValidatePublicKey(hexKey) == x3dh_decode32(hexKey).err

\* ------------------------------------------------ helpers of the two clients
\* encode32 of cmd/alice and cmd/bob
encode32(pk) == EncodeToString(pk)

\* decode32 of cmd/alice and cmd/bob: panics on a hex error, then copies what
\* was decoded into a [32]byte without looking at its length
decode32(s) ==
    LET d == DecodeString(s) IN [out |-> Copy32(d.raw), panic |-> d.err]

None == <<>>
Some(v) == <<v>>

\* the steps of a run, in order: F is applied when the run stands at pc
Then(r, pc, F(_)) == IF r.pc = pc THEN F(r) ELSE r

\* ---------------------------------------------------------------- variables
VARIABLES
    rdbBundle,      \* Redis "bundle:"+user: None or Some(Bundle)
    rdbMessages,    \* Redis list "messages:"+user, of [msg, id, src] (id, src are ghosts)
    stats,          \* serverState.stats
    aliceKeyFile,   \* alice_private_keys.json: None or Some(IKaPriv bytes)
    alice,          \* the locals of cmd/alice main
    bobKeyFile,     \* bob_private_keys.json: None or Some(BobPrivateKeys)
    bob,            \* the locals of cmd/bob register / checkMessages
    chat,           \* chat.go, per front end: the polling goroutine
    budget,         \* how many bounded runs were started, per kind
    nextId,         \* ghost: the number of envelopes pushed so far
    popLog,         \* ghost: per user, the ids LPOP returned, in order
    test            \* the locals of the unit tests of internal/x3dh

serverVars == <<rdbBundle, rdbMessages, stats>>
aliceVars == <<aliceKeyFile, alice>>
bobVars == <<bobKeyFile, bob>>
ghostVars == <<nextId, popLog>>
vars == <<rdbBundle, rdbMessages, stats, aliceKeyFile, alice, bobKeyFile, bob,
          chat, budget, nextId, popLog, test>>

\* --------------------------------------------------------------- randomness
\* The seeds stand for what rand.Reader yields. They are chosen so that keys
\* drawn for different purposes differ and no public key has the bytes of a
\* private key, as holds for random 32-byte keys.
AliceSeed == 1
EphemeralSeed(session) == 40 + session
NonceSeed(session) == session
BobSeed(reg, k) == 20 + 3 * reg + k
EdSeed(reg) == reg
MallorySeed == 101

\* ------------------------------------------------------------------- server
\* Every handler takes, next to its request, whether Redis answers the command
\* it sends (up); a command that is not answered returns an error.

\* a faulty variant of RegisterBundle: one key for the bundles of all users
RegisterBundle_SharedKey(userID, bundle, up) ==
    IF ~up THEN [err |-> TRUE, bundles |-> rdbBundle, stats |-> stats]
    ELSE [err |-> FALSE,
          bundles |-> [u \in Users |-> Some(bundle)],
          stats |-> [stats EXCEPT !.TotalBundlesRegistered = @ + 1]]

\* a faulty variant of RegisterBundle: SETNX, a stored bundle is kept
RegisterBundle_SetNX(userID, bundle, up) ==
    IF ~up THEN [err |-> TRUE, bundles |-> rdbBundle, stats |-> stats]
    ELSE [err |-> FALSE,
          bundles |-> IF rdbBundle[userID] = None
                      THEN [rdbBundle EXCEPT ![userID] = Some(bundle)]
                      ELSE rdbBundle,
          stats |-> [stats EXCEPT !.TotalBundlesRegistered = @ + 1]]

\* ServerState.RegisterBundle under registerHandler: SET, then the counter
RegisterBundle(userID, bundle, up) ==
    IF ~up THEN [err |-> TRUE, bundles |-> rdbBundle, stats |-> stats]
    ELSE [err |-> FALSE,
          bundles |-> [rdbBundle EXCEPT ![userID] = Some(bundle)],
          stats |-> [stats EXCEPT !.TotalBundlesRegistered = @ + 1]]

\* registerHandler: POST /register/<user>
registerHandler(user, bundle, up) ==
    IF user = "" THEN [status |-> 400, bundles |-> rdbBundle, stats |-> stats]
    ELSE LET r == RegisterBundle(user, bundle, up) IN
         [status |-> IF r.err THEN 500 ELSE 200, bundles |-> r.bundles, stats |-> r.stats]

\* a faulty variant of GetBundle: the one-time prekey is handed out once, the
\* stored bundle keeps a zero key in its place
GetBundle_TakeOTK(userID, up) ==
    IF ~up THEN [bundle |-> None, exists |-> FALSE, bundles |-> rdbBundle]
    ELSE IF rdbBundle[userID] = None THEN [bundle |-> None, exists |-> FALSE, bundles |-> rdbBundle]
    ELSE [bundle |-> rdbBundle[userID], exists |-> TRUE,
          bundles |-> [rdbBundle EXCEPT ![userID] = Some([@[1] EXCEPT !.OTK = encode32(Zero32)])]]

\* ServerState.GetBundle: a GET; a Redis error is logged and reported as
\* absence. bundles is the store after the command.
GetBundle(userID, up) ==
    IF ~up THEN [bundle |-> None, exists |-> FALSE, bundles |-> rdbBundle]
    ELSE IF rdbBundle[userID] = None THEN [bundle |-> None, exists |-> FALSE, bundles |-> rdbBundle]
    ELSE [bundle |-> rdbBundle[userID], exists |-> TRUE, bundles |-> rdbBundle]

\* bundleHandler: GET /bundle/<user>
bundleHandler(user, up) ==
    IF user = "" THEN [status |-> 400, bundle |-> None, bundles |-> rdbBundle]
    ELSE LET r == GetBundle(user, up) IN
         IF ~r.exists THEN [status |-> 404, bundle |-> None, bundles |-> r.bundles]
         ELSE [status |-> 200, bundle |-> r.bundle, bundles |-> r.bundles]

\* a faulty variant of sendMessageHandler: an envelope that is already
\* queued for the user is acknowledged and not stored again
sendMessageHandler_Dedup(user, msg, src, up) ==
    IF user = "" THEN [status |-> 400, messages |-> rdbMessages, nextId |-> nextId]
    ELSE IF ~up THEN [status |-> 500, messages |-> rdbMessages, nextId |-> nextId]
    ELSE IF \E i \in DOMAIN rdbMessages[user] : rdbMessages[user][i].msg = msg
         THEN [status |-> 200, messages |-> rdbMessages, nextId |-> nextId]
    ELSE [status |-> 200,
          messages |-> [rdbMessages EXCEPT
                          ![user] = Append(@, [msg |-> msg, id |-> nextId + 1, src |-> src])],
          nextId |-> nextId + 1]

\* a faulty variant of sendMessageHandler: LPUSH in place of RPUSH
sendMessageHandler_LPush(user, msg, src, up) ==
    IF user = "" THEN [status |-> 400, messages |-> rdbMessages, nextId |-> nextId]
    ELSE IF ~up THEN [status |-> 500, messages |-> rdbMessages, nextId |-> nextId]
    ELSE [status |-> 200,
          messages |-> [rdbMessages EXCEPT
                          ![user] = <<[msg |-> msg, id |-> nextId + 1, src |-> src]>> \o @],
          nextId |-> nextId + 1]

\* sendMessageHandler: POST /send/<user>, an RPUSH; src is the ghost that
\* tells what the envelope was built from
sendMessageHandler(user, msg, src, up) ==
    IF user = "" THEN [status |-> 400, messages |-> rdbMessages, nextId |-> nextId]
    ELSE IF ~up THEN [status |-> 500, messages |-> rdbMessages, nextId |-> nextId]
    ELSE [status |-> 200,
          messages |-> [rdbMessages EXCEPT
                          ![user] = Append(@, [msg |-> msg, id |-> nextId + 1, src |-> src])],
          nextId |-> nextId + 1]

\* a faulty variant of LPop: the head is returned and moved to the tail
LPop_Requeue(user, up) ==
    IF user = "" THEN [status |-> 400, data |-> None, messages |-> rdbMessages]
    ELSE IF ~up THEN [status |-> 500, data |-> None, messages |-> rdbMessages]
    ELSE IF rdbMessages[user] = <<>> THEN [status |-> 404, data |-> None, messages |-> rdbMessages]
    ELSE [status |-> 200,
          data |-> Some(Head(rdbMessages[user])),
          messages |-> [rdbMessages EXCEPT ![user] = Append(Tail(@), Head(@))]]

\* a faulty variant of LPop: LINDEX 0, the head is read and stays
LPop_LIndex(user, up) ==
    IF user = "" THEN [status |-> 400, data |-> None, messages |-> rdbMessages]
    ELSE IF ~up THEN [status |-> 500, data |-> None, messages |-> rdbMessages]
    ELSE IF rdbMessages[user] = <<>> THEN [status |-> 404, data |-> None, messages |-> rdbMessages]
    ELSE [status |-> 200, data |-> Some(Head(rdbMessages[user])), messages |-> rdbMessages]

\* a faulty variant of LPop: the last envelope of a queue is handed out and
\* stays in the queue
LPop_KeepsLast(user, up) ==
    IF user = "" THEN [status |-> 400, data |-> None, messages |-> rdbMessages]
    ELSE IF ~up THEN [status |-> 500, data |-> None, messages |-> rdbMessages]
    ELSE IF rdbMessages[user] = <<>> THEN [status |-> 404, data |-> None, messages |-> rdbMessages]
    ELSE [status |-> 200,
          data |-> Some(Head(rdbMessages[user])),
          messages |-> IF Len(rdbMessages[user]) = 1 THEN rdbMessages
                       ELSE [rdbMessages EXCEPT ![user] = Tail(@)]]

\* getMessageHandler, first Redis command: LPOP
LPop(user, up) ==
    IF user = "" THEN [status |-> 400, data |-> None, messages |-> rdbMessages]
    ELSE IF ~up THEN [status |-> 500, data |-> None, messages |-> rdbMessages]
    ELSE IF rdbMessages[user] = <<>> THEN [status |-> 404, data |-> None, messages |-> rdbMessages]
    ELSE [status |-> 200,
          data |-> Some(Head(rdbMessages[user])),
          messages |-> [rdbMessages EXCEPT ![user] = Tail(@)]]

\* ghost: the log of what LPOP returned
Popped(user, r) ==
    IF r.status = 200 THEN [popLog EXCEPT ![user] = Append(@, r.data[1].id)] ELSE popLog

\* getMessageHandler, second Redis command: LLEN, whose error is dropped
LLen(user, up) == IF ~up THEN 0 ELSE Len(rdbMessages[user])

\* getMessageHandler, the response written after LLEN
getMessageResponse(user, data, up) ==
    [status |-> 200, message |-> data[1].msg, messages_left |-> LLen(user, up)]

\* a faulty variant of historyHandler: the queue is read and then deleted
historyHandler_Drain(user, up) ==
    IF user = "" THEN [status |-> 400, messages |-> <<>>, queue |-> rdbMessages]
    ELSE IF ~up THEN [status |-> 500, messages |-> <<>>, queue |-> rdbMessages]
    ELSE [status |-> 200,
          messages |-> [i \in 1..Len(rdbMessages[user]) |-> rdbMessages[user][i].msg],
          queue |-> [rdbMessages EXCEPT ![user] = <<>>]]

\* historyHandler: GET /history/<user>, an LRANGE 0 -1; queue is the store
\* after the command
historyHandler(user, up) ==
    IF user = "" THEN [status |-> 400, messages |-> <<>>, queue |-> rdbMessages]
    ELSE IF ~up THEN [status |-> 500, messages |-> <<>>, queue |-> rdbMessages]
    ELSE [status |-> 200,
          messages |-> [i \in 1..Len(rdbMessages[user]) |-> rdbMessages[user][i].msg],
          queue |-> rdbMessages]

\* ---------------------------------------------------------------- cmd/alice
Plaintexts == {<<104, 105>>, <<111, 107>>}

AliceInit ==
    [pc |-> "Start", err |-> "", alicePriv |-> NilKey, alicePub |-> Zero32,
     bobBundle |-> None, privEKa |-> NilKey, pubEKa |-> Zero32, dh |-> <<>>,
     master |-> None, plaintext |-> NoBytes, nonce |-> NoBytes, ciphertext |-> None]

AliceFail(a, why) == [a EXCEPT !.pc = "Failed", !.err = why]

\* main, step 1: load the identity key, or generate and save it
AliceLoadKey(file) ==
    LET loaded == Base64Decode(file[1])
        priv == IF file = None THEN GenKeyPair(AliceSeed).priv
                ELSE IF loaded.err THEN NilKey
                ELSE NewPrivateKey(loaded.raw)
    IN
    IF priv = NilKey THEN AliceFail(AliceInit, "LoadKey")
    ELSE [AliceInit EXCEPT !.alicePriv = priv, !.alicePub = PublicKeyOf(priv)]

\* a faulty variant of AliceFetch: every status but 200 is the same failure
AliceFetch_OneError(a, up) ==
    LET r == bundleHandler("bob", up) IN
    IF r.status # 200 THEN AliceFail(a, "ServerError")
    ELSE [a EXCEPT !.pc = "BundleFetched", !.bobBundle = r.bundle]

\* main, step 2: GET /bundle/bob
AliceFetch(a, up) ==
    LET r == bundleHandler("bob", up) IN
    IF r.status = 404 THEN AliceFail(a, "BundleNotFound")
    ELSE IF r.status # 200 THEN AliceFail(a, "ServerError")
    ELSE [a EXCEPT !.pc = "BundleFetched", !.bobBundle = r.bundle]

\* a faulty variant of AliceVerify: the failure is logged and main goes on
AliceVerify_NoAbort(a) ==
    IF decode32(a.bobBundle[1].SPK).panic THEN AliceFail(a, "Panic")
    ELSE [a EXCEPT !.pc = "Verified"]

\* main, step 3: verify the signature on the signed pre-key
AliceVerify(a) ==
    LET b == a.bobBundle[1]
        edPub == HexDecodeBlob(b.Ed25519).raw
        sig == HexDecodeBlob(b.Sig).raw
        spkBytes == decode32(b.SPK)
        v == Verify(edPub, spkBytes.out, sig)
    IN IF spkBytes.panic \/ v.panic THEN AliceFail(a, "Panic")
       ELSE IF ~v.ok THEN AliceFail(a, "SignatureVerification")
       ELSE [a EXCEPT !.pc = "Verified"]

\* a faulty variant of AliceDHs: DH2 and DH3 change places
AliceDHs_Swapped(alicePriv, privEKa, IKb, SPKb, OTKb) ==
    <<DH(alicePriv, SPKb), DH(privEKa, SPKb), DH(privEKa, IKb), DH(privEKa, OTKb)>>

\* main, step 6: DH1 to DH4 as the initiator computes them
AliceDHs(alicePriv, privEKa, IKb, SPKb, OTKb) ==
    <<DH(alicePriv, SPKb), DH(privEKa, IKb), DH(privEKa, SPKb), DH(privEKa, OTKb)>>

\* a faulty variant of AliceDerive: the errors of DH are not looked at
AliceDerive_IgnoresErrors(a, session) ==
    LET b == a.bobBundle[1]
        ek == GenKeyPair(EphemeralSeed(session))
        a1 == [a EXCEPT !.privEKa = ek.priv, !.pubEKa = ek.pub]
        IKb == decode32(b.IK)
        SPKb == decode32(b.SPK)
        OTKb == decode32(b.OTK)
        dhs == AliceDHs(a.alicePriv, ek.priv, IKb.out, SPKb.out, OTKb.out)
    IN IF IKb.panic \/ SPKb.panic \/ OTKb.panic THEN AliceFail(a1, "Panic")
       ELSE [a1 EXCEPT !.pc = "SecretDerived",
                       !.dh = <<dhs[1].out, dhs[2].out, dhs[3].out, dhs[4].out>>,
                       !.master = Some(KDF(<<dhs[1].out, dhs[2].out, dhs[3].out, dhs[4].out>>))]

\* main, steps 4 to 6: the ephemeral key, the four DH values and the KDF
AliceDerive(a, session) ==
    LET b == a.bobBundle[1]
        ek == GenKeyPair(EphemeralSeed(session))
        a1 == [a EXCEPT !.privEKa = ek.priv, !.pubEKa = ek.pub]
        IKb == decode32(b.IK)
        SPKb == decode32(b.SPK)
        OTKb == decode32(b.OTK)
        dhs == AliceDHs(a.alicePriv, ek.priv, IKb.out, SPKb.out, OTKb.out)
        DH1 == dhs[1]
        DH2 == dhs[2]
        DH3 == dhs[3]
        DH4 == dhs[4]
    IN IF IKb.panic \/ SPKb.panic \/ OTKb.panic THEN AliceFail(a1, "Panic")
       ELSE IF DH1.err THEN AliceFail(a1, "DH1")
       ELSE IF DH2.err THEN AliceFail([a1 EXCEPT !.dh = <<DH1.out>>], "DH2")
       ELSE IF DH3.err THEN AliceFail([a1 EXCEPT !.dh = <<DH1.out, DH2.out>>], "DH3")
       ELSE IF DH4.err THEN AliceFail([a1 EXCEPT !.dh = <<DH1.out, DH2.out, DH3.out>>], "DH4")
       ELSE [a1 EXCEPT !.pc = "SecretDerived",
                       !.dh = <<DH1.out, DH2.out, DH3.out, DH4.out>>,
                       !.master = Some(KDF(<<DH1.out, DH2.out, DH3.out, DH4.out>>))]

\* main, step 7: read the message, seal it under the session key
AliceEncrypt(a, plaintext, session) ==
    LET nonce == [i \in 1..NonceSize |-> IF i = 1 THEN NonceSeed(session) ELSE 0] IN
    [a EXCEPT !.pc = "Encrypted",
              !.plaintext = plaintext,
              !.nonce = nonce,
              !.ciphertext = Some(Seal(a.master[1], nonce, plaintext))]

\* main, from its start to the sealed message, run at most runs times
AliceRunUpTo(runs) ==
    /\ alice.pc \in {"Start", "Sent", "Failed"}
    /\ budget.sessions < runs
    /\ \E plaintext \in Plaintexts, up \in BOOLEAN :
         LET session == budget.sessions + 1
             Fetch(a) == AliceFetch(a, up)
             Verify3(a) == AliceVerify(a)
             Derive(a) == AliceDerive(a, session)
             Encrypt(a) == AliceEncrypt(a, plaintext, session)
             a0 == AliceLoadKey(aliceKeyFile)
         IN /\ alice' = Then(Then(Then(Then(a0, "Start", Fetch), "BundleFetched", Verify3),
                                  "Verified", Derive), "SecretDerived", Encrypt)
            /\ aliceKeyFile' = IF aliceKeyFile = None
                               THEN Some(Base64Encode(GenKeyPair(AliceSeed).priv))
                               ELSE aliceKeyFile
            /\ rdbBundle' = IF a0.pc = "Start" THEN bundleHandler("bob", up).bundles
                            ELSE rdbBundle
    /\ budget' = [budget EXCEPT !.sessions = @ + 1]
    /\ UNCHANGED <<rdbMessages, stats, bobVars, chat, ghostVars, test>>

AliceRun == AliceRunUpTo(MaxSessions)

\* main one step at a time. Steps 1 and 2: the identity key is loaded or
\* generated and the bundle is fetched
AliceBegin ==
    /\ alice.pc \in {"Start", "Sent", "Failed"}
    /\ budget.sessions < MaxRuns
    /\ \E up \in BOOLEAN :
         LET Fetch(a) == AliceFetch(a, up)
             a0 == AliceLoadKey(aliceKeyFile)
         IN /\ alice' = Then(a0, "Start", Fetch)
            /\ aliceKeyFile' = IF aliceKeyFile = None
                               THEN Some(Base64Encode(GenKeyPair(AliceSeed).priv))
                               ELSE aliceKeyFile
            /\ rdbBundle' = IF a0.pc = "Start" THEN bundleHandler("bob", up).bundles
                            ELSE rdbBundle
    /\ budget' = [budget EXCEPT !.sessions = @ + 1]
    /\ UNCHANGED <<rdbMessages, stats, bobVars, chat, ghostVars, test>>

\* main, step 3
AliceStepVerify ==
    /\ alice.pc = "BundleFetched"
    /\ alice' = AliceVerify(alice)
    /\ UNCHANGED <<serverVars, aliceKeyFile, bobVars, chat, budget, ghostVars, test>>

\* main, steps 4 to 6
AliceStepDerive ==
    /\ alice.pc = "Verified"
    /\ alice' = AliceDerive(alice, budget.sessions)
    /\ UNCHANGED <<serverVars, aliceKeyFile, bobVars, chat, budget, ghostVars, test>>

\* main, step 7
AliceStepEncrypt ==
    /\ alice.pc = "SecretDerived"
    /\ \E plaintext \in Plaintexts : alice' = AliceEncrypt(alice, plaintext, budget.sessions)
    /\ UNCHANGED <<serverVars, aliceKeyFile, bobVars, chat, budget, ghostVars, test>>

\* a faulty variant of AliceMessage: a zero nonce is sent, not the one used
AliceMessage_ZeroNonce(a) ==
    [AliceIK |-> encode32(a.alicePub),
     AliceEKa |-> encode32(a.pubEKa),
     Nonce |-> HexEncodeBlob(BytesBlob([i \in 1..NonceSize |-> 0])),
     Ciphertext |-> HexEncodeBlob(a.ciphertext[1]),
     Sender |-> "alice"]

\* a faulty variant of AliceMessage: the private half of the identity key
AliceMessage_SendsPrivate(a) ==
    [AliceIK |-> encode32(a.alicePriv),
     AliceEKa |-> encode32(a.pubEKa),
     Nonce |-> HexEncodeBlob(BytesBlob(a.nonce)),
     Ciphertext |-> HexEncodeBlob(a.ciphertext[1]),
     Sender |-> "alice"]

\* the InitialMessage main builds in step 8
AliceMessage(a) ==
    [AliceIK |-> encode32(a.alicePub),
     AliceEKa |-> encode32(a.pubEKa),
     Nonce |-> HexEncodeBlob(BytesBlob(a.nonce)),
     Ciphertext |-> HexEncodeBlob(a.ciphertext[1]),
     Sender |-> "alice"]

\* ghost: what an envelope was built from: by which program, the session key
\* and the plaintext sealed into it, the bundle that was fetched for it
Source(by, master, pt, bundle) ==
    [by |-> by, master |-> master, pt |-> pt, bundle |-> bundle]

AliceSource(a) == Source("alice", a.master[1], a.plaintext, a.bobBundle)

\* main, step 8: POST /send/bob
AliceSend ==
    /\ alice.pc = "Encrypted"
    /\ \E up \in BOOLEAN :
       LET r == sendMessageHandler("bob", AliceMessage(alice), AliceSource(alice), up) IN
       /\ rdbMessages' = r.messages
       /\ nextId' = r.nextId
       /\ alice' = IF r.status # 200 THEN AliceFail(alice, "SendFailed")
                   ELSE [alice EXCEPT !.pc = "Sent"]
    /\ UNCHANGED <<rdbBundle, stats, aliceKeyFile, bobVars, chat, budget, popLog, test>>

\* ------------------------------------------------------------------ cmd/bob
BobInit ==
    [pc |-> "Idle", err |-> "", IKbPriv |-> NilKey, SPKbPriv |-> NilKey, OTKbPriv |-> NilKey,
     status |-> 0, popped |-> None, msg |-> None, left |-> 0, dh |-> <<>>,
     master |-> None, plaintext |-> NoBytes]

BobFail(b, why) == [b EXCEPT !.pc = "Failed", !.err = why]

\* no bob process is running
BobStopped == bob.pc \in {"Idle", "Registered", "NoMessage", "Decrypted", "Failed"}

\* a faulty variant of BobBundle: the identity key is signed
BobBundle_SignsIK(IKbPub, SPKbPub, OTKbPub, edPriv) ==
    [IK |-> encode32(IKbPub),
     SPK |-> encode32(SPKbPub),
     OTK |-> encode32(OTKbPub),
     Ed25519 |-> HexEncodeBlob(BytesBlob(EdPublic(edPriv))),
     Sig |-> HexEncodeBlob(Sign(edPriv, IKbPub))]

\* the Bundle register builds from freshly generated keys
BobBundle(IKbPub, SPKbPub, OTKbPub, edPriv) ==
    [IK |-> encode32(IKbPub),
     SPK |-> encode32(SPKbPub),
     OTK |-> encode32(OTKbPub),
     Ed25519 |-> HexEncodeBlob(BytesBlob(EdPublic(edPriv))),
     Sig |-> HexEncodeBlob(Sign(edPriv, SPKbPub))]

\* the keys register generates at its reg-th run, as it saves them
\* a faulty variant of BobPrivateKeys: every registration saves the keys of
\* the first one
BobPrivateKeys_FirstKeys(reg) ==
    [IKbPriv |-> GenKeyPair(BobSeed(1, 0)).priv,
     SPKbPriv |-> GenKeyPair(BobSeed(1, 1)).priv,
     EdPriv |-> NewKeyFromSeed(Le32(EdSeed(reg))),
     OTKbPriv |-> GenKeyPair(BobSeed(1, 2)).priv]

\* the private keys register generates at its reg-th run
BobPrivateKeys(reg) ==
    [IKbPriv |-> GenKeyPair(BobSeed(reg, 0)).priv,
     SPKbPriv |-> GenKeyPair(BobSeed(reg, 1)).priv,
     EdPriv |-> NewKeyFromSeed(Le32(EdSeed(reg))),
     OTKbPriv |-> GenKeyPair(BobSeed(reg, 2)).priv]

\* json.MarshalIndent(keysToSave): the content of bob_private_keys.json
BobKeyBlob(keys) == [f \in DOMAIN keys |-> Base64Encode(keys[f])]

\* json.Unmarshal(privateKeyBlob, &loadedKeys)
BobLoadedKeys(blob) == [f \in DOMAIN blob |-> Base64Decode(blob[f]).raw]

\* the bundle register uploads at its reg-th run
BobUpload(reg) ==
    BobBundle(GenKeyPair(BobSeed(reg, 0)).pub, GenKeyPair(BobSeed(reg, 1)).pub,
              GenKeyPair(BobSeed(reg, 2)).pub, BobPrivateKeys(reg).EdPriv)

\* register with no key file: generate, save, sign, POST /register/bob; run
\* at most regs times. saved tells whether os.WriteFile wrote the key file:
\* its error is discarded and register goes on.
BobRegisterWith(regs, saved) ==
    /\ BobStopped
    /\ bobKeyFile = None
    /\ budget.regs < regs
    /\ \E up \in BOOLEAN :
       LET reg == budget.regs + 1
           r == registerHandler("bob", BobUpload(reg), up)
       IN /\ bobKeyFile' = IF saved THEN Some(BobKeyBlob(BobPrivateKeys(reg))) ELSE None
          /\ rdbBundle' = r.bundles
          /\ stats' = r.stats
          /\ bob' = IF r.status # 200 THEN BobFail(BobInit, "RegistrationFailed")
                    ELSE [BobInit EXCEPT !.pc = "Registered"]
    /\ budget' = [budget EXCEPT !.regs = @ + 1]
    /\ UNCHANGED <<rdbMessages, aliceVars, chat, ghostVars, test>>

\* register on a disk that takes the key file
BobRegisterUpTo(regs) == BobRegisterWith(regs, TRUE)

BobRegister == BobRegisterUpTo(MaxRegs)

\* register on any disk
BobRegisterAnyDisk(regs) == \E saved \in BOOLEAN : BobRegisterWith(regs, saved)

\* register with the key file present: refuses
BobRegisterRefused ==
    /\ BobStopped
    /\ bobKeyFile # None
    /\ bob' = BobFail(BobInit, "KeysAlreadyExist")
    /\ UNCHANGED <<serverVars, aliceVars, bobKeyFile, chat, budget, ghostVars, test>>

\* the user removes bob_private_keys.json, as the README tells to before a
\* new registration
DeleteKeyFile ==
    /\ bobKeyFile # None
    /\ bobKeyFile' = None
    /\ budget' = [budget EXCEPT !.deleted = @ + 1]
    /\ UNCHANGED <<serverVars, aliceVars, bob, chat, ghostVars, test>>

\* what is left of a key file that was not written whole or was edited: the
\* text of a key cut off (no valid JSON string of base64), or a key that is
\* base64 of fewer bytes
DamagedKeyBlobs(blob) ==
    {[blob EXCEPT ![f] = SubSeq(@, 1, Len(@) - 1)] : f \in {"IKbPriv", "OTKbPriv"}}
    \cup {[blob EXCEPT ![f] = Base64Encode(SubSeq(Base64Decode(@).raw, 1, KeySize - 1))]
             : f \in {"IKbPriv", "SPKbPriv"}}

\* bob_private_keys.json is damaged on disk
DamageKeyFile ==
    /\ bobKeyFile # None
    /\ bobKeyFile = Some(BobKeyBlob(BobPrivateKeys(budget.regs)))
    /\ \E blob \in DamagedKeyBlobs(bobKeyFile[1]) : bobKeyFile' = Some(blob)
    /\ UNCHANGED <<serverVars, aliceVars, bob, chat, budget, ghostVars, test>>

\* a faulty variant of BobLoadKeys: a check without keys goes on to poll
BobLoadKeys_GoesOn(file) ==
    IF file = None \/ \E f \in DOMAIN file[1] : Base64Decode(file[1][f]).err
    THEN [BobInit EXCEPT !.pc = "Loaded"]
    ELSE LET loadedKeys == BobLoadedKeys(file[1]) IN
         [BobInit EXCEPT !.pc = "Loaded",
                         !.IKbPriv = NewPrivateKey(loadedKeys.IKbPriv),
                         !.SPKbPriv = NewPrivateKey(loadedKeys.SPKbPriv),
                         !.OTKbPriv = NewPrivateKey(loadedKeys.OTKbPriv)]

\* checkMessages, step 1: load the private keys
BobLoadKeys(file) ==
    IF file = None THEN BobFail(BobInit, "KeysNotFound")
    ELSE IF \E f \in DOMAIN file[1] : Base64Decode(file[1][f]).err
         THEN BobFail(BobInit, "Panic")
    ELSE LET loadedKeys == BobLoadedKeys(file[1]) IN
         [BobInit EXCEPT !.pc = "Loaded",
                         !.IKbPriv = NewPrivateKey(loadedKeys.IKbPriv),
                         !.SPKbPriv = NewPrivateKey(loadedKeys.SPKbPriv),
                         !.OTKbPriv = NewPrivateKey(loadedKeys.OTKbPriv)]

\* a faulty variant of BobPoll: an empty queue is fatal like any other status
BobPoll_EmptyFatal(b, r) ==
    IF r.status # 200 THEN BobFail(b, "ServerError")
    ELSE [b EXCEPT !.pc = "Polling", !.popped = r.data]

\* checkMessages, step 2: GET /messages/bob, up to the handler's LPOP
BobPoll(b, r) ==
    IF r.status = 404 THEN [b EXCEPT !.pc = "NoMessage"]
    ELSE IF r.status # 200 THEN BobFail(b, "ServerError")
    ELSE [b EXCEPT !.pc = "Polling", !.popped = r.data]

BobCheck ==
    /\ BobStopped
    /\ \E up \in BOOLEAN :
       LET b0 == BobLoadKeys(bobKeyFile)
           r == LPop("bob", up)
       IN IF b0.pc = "Loaded"
          THEN /\ bob' = BobPoll([b0 EXCEPT !.status = r.status], r)
               /\ rdbMessages' = r.messages
               /\ popLog' = Popped("bob", r)
          ELSE /\ bob' = b0
               /\ UNCHANGED <<rdbMessages, popLog>>
    /\ UNCHANGED <<rdbBundle, stats, aliceVars, bobKeyFile, chat, budget, nextId, test>>

\* checkMessages, step 3: the response of getMessageHandler decoded
BobDequeued(b, r) ==
    [b EXCEPT !.pc = "Dequeued", !.msg = Some(r.message), !.left = r.messages_left]

\* a faulty variant of BobDHs: DH1 taken with the identity key
BobDHs_IdentityFirst(IKbPriv, SPKbPriv, OTKbPriv, IKa, EKa) ==
    <<DH(IKbPriv, IKa), DH(IKbPriv, EKa), DH(SPKbPriv, EKa), DH(OTKbPriv, EKa)>>

\* checkMessages, step 4: DH1 to DH4 as the responder computes them
BobDHs(IKbPriv, SPKbPriv, OTKbPriv, IKa, EKa) ==
    <<DH(SPKbPriv, IKa), DH(IKbPriv, EKa), DH(SPKbPriv, EKa), DH(OTKbPriv, EKa)>>

\* checkMessages, step 4: the four DH values and the KDF
BobDerive(b) ==
    LET m == b.msg[1]
        IKa == decode32(m.AliceIK)
        EKa == decode32(m.AliceEKa)
        dhs == BobDHs(b.IKbPriv, b.SPKbPriv, b.OTKbPriv, IKa.out, EKa.out)
        DH1 == dhs[1]
        DH2 == dhs[2]
        DH3 == dhs[3]
        DH4 == dhs[4]
    IN IF IKa.panic \/ EKa.panic THEN BobFail(b, "Panic")
       ELSE IF DH1.err THEN BobFail(b, "DH1")
       ELSE IF DH2.err THEN BobFail([b EXCEPT !.dh = <<DH1.out>>], "DH2")
       ELSE IF DH3.err THEN BobFail([b EXCEPT !.dh = <<DH1.out, DH2.out>>], "DH3")
       ELSE IF DH4.err THEN BobFail([b EXCEPT !.dh = <<DH1.out, DH2.out, DH3.out>>], "DH4")
       ELSE [b EXCEPT !.pc = "SecretRederived",
                      !.dh = <<DH1.out, DH2.out, DH3.out, DH4.out>>,
                      !.master = Some(KDF(<<DH1.out, DH2.out, DH3.out, DH4.out>>))]

\* checkMessages, step 5: open the box
BobOpen(b) ==
    LET m == b.msg[1]
        nonce == HexDecodeBlob(m.Nonce).raw
        ciphertext == HexDecodeBlob(m.Ciphertext).raw
        o == Open(b.master[1], nonce, ciphertext)
    IN IF o.panic THEN BobFail(b, "Panic")
       ELSE IF o.err THEN BobFail(b, "DecryptionFailed")
       ELSE [b EXCEPT !.pc = "Decrypted", !.plaintext = o.pt]

\* the rest of getMessageHandler (LLEN, the response), and checkMessages from
\* the response to its end
BobReceive ==
    /\ bob.pc = "Polling"
    /\ \E up \in BOOLEAN :
       LET r == getMessageResponse("bob", bob.popped, up) IN
       bob' = Then(Then(BobDequeued(bob, r), "Dequeued", BobDerive), "SecretRederived", BobOpen)
    /\ UNCHANGED <<serverVars, aliceVars, bobKeyFile, chat, budget, ghostVars, test>>

\* ------------------------------------------------------------------ chat.go
\* the front ends that run: one terminal logged in as alice, two as bob
ChatClients == {"alice", "bob", "bob#2"}
Username(c) == IF c = "alice" THEN "alice" ELSE "bob"
Recipient(c) == IF Username(c) = "alice" THEN "bob" ELSE "alice"

ChatTexts == {<<"h", "i">>, <<"y", "o">>}

\* the InitialMessage sendMessage builds: the text itself in Ciphertext
ChatMessage(sender, text) ==
    [AliceIK |-> <<>>,
     AliceEKa |-> <<>>,
     Nonce |-> TextString(<<>>),
     Ciphertext |-> TextString(text),
     Sender |-> sender]

ChatSource == Source("chat", EmptyBlob, NoBytes, None)

\* sendMessage: POST /send/<recipient>, the response is not looked at
ChatSend(c) ==
    /\ budget.chat < MaxChat
    /\ \E text \in ChatTexts, up \in BOOLEAN :
         LET r == sendMessageHandler(Recipient(c), ChatMessage(Username(c), text),
                                     ChatSource, up)
         IN /\ rdbMessages' = r.messages
            /\ nextId' = r.nextId
    /\ budget' = [budget EXCEPT !.chat = @ + 1]
    /\ UNCHANGED <<rdbBundle, stats, aliceVars, bobVars, chat, popLog, test>>

\* left is messages_left of the last response; after and counted are ghosts:
\* the length of the queue right after the LPOP of that response, and whether
\* its LLEN was answered
ChatInit ==
    [pc |-> "idle", popped |-> None, sender |-> "", text |-> TextString(<<>>),
     left |-> 0, after |-> 0, counted |-> FALSE]

\* checkMessages of the polling goroutine: GET /messages/<username> up to the
\* handler's LPOP; any status but 200 is io.EOF
ChatPoll(c) ==
    /\ chat[c].pc = "idle"
    /\ \E up \in BOOLEAN :
       LET r == LPop(Username(c), up) IN
       /\ rdbMessages' = r.messages
       /\ popLog' = Popped(Username(c), r)
       /\ chat' = IF r.status = 200
                  THEN [chat EXCEPT ![c].pc = "popped", ![c].popped = r.data,
                                    ![c].after = Len(r.messages[Username(c)])]
                  ELSE chat
    /\ UNCHANGED <<rdbBundle, stats, aliceVars, bobVars, budget, nextId, test>>

\* the rest of getMessageHandler, and checkMessages returning sender and text
ChatReceive(c) ==
    /\ chat[c].pc = "popped"
    /\ \E up \in BOOLEAN :
       LET r == getMessageResponse(Username(c), chat[c].popped, up) IN
       chat' = [chat EXCEPT ![c] =
                  [pc |-> "idle", popped |-> None, sender |-> r.message.Sender,
                   text |-> r.message.Ciphertext, left |-> r.messages_left,
                   after |-> chat[c].after, counted |-> up]]
    /\ UNCHANGED <<serverVars, aliceVars, bobVars, budget, ghostVars, test>>

\* -------------------------------------------------------- other HTTP clients
\* the keys of a third party that talks to the server directly
MalloryKey == GenKeyPair(MallorySeed)
MalloryEd == NewKeyFromSeed(Le32(MallorySeed))

\* the bundles such a client may POST to /register/bob: its own, and the
\* stored one with one public key replaced
ForgedBundles ==
    {BobBundle(MalloryKey.pub, MalloryKey.pub, MalloryKey.pub, MalloryEd)}
    \cup (IF rdbBundle["bob"] = None THEN {}
          ELSE LET b == rdbBundle["bob"][1] IN
               {[b EXCEPT !.IK = encode32(MalloryKey.pub)],
                [b EXCEPT !.SPK = encode32(MalloryKey.pub)],
                [b EXCEPT !.OTK = encode32(MalloryKey.pub)]})

RawRegister ==
    /\ budget.forged < MaxForged
    /\ \E bundle \in ForgedBundles, up \in BOOLEAN :
         LET r == registerHandler("bob", bundle, up) IN
         /\ rdbBundle' = r.bundles
         /\ stats' = r.stats
    /\ budget' = [budget EXCEPT !.forged = @ + 1]
    /\ UNCHANGED <<rdbMessages, aliceVars, bobVars, chat, ghostVars, test>>

\* the bundles such a client may POST to /register/bob that pass the check of
\* the signature and then fail: the stored one with the identity key or the
\* one-time pre-key replaced by the zero point, or by text that is not hex
DegenerateBundles ==
    IF rdbBundle["bob"] = None THEN {}
    ELSE LET b == rdbBundle["bob"][1]
             notHex == [i \in 1..2 * KeySize |-> "x"]
         IN {[b EXCEPT !.IK = encode32(Zero32)], [b EXCEPT !.OTK = encode32(Zero32)],
             [b EXCEPT !.IK = notHex], [b EXCEPT !.OTK = notHex]}

RawRegisterDegenerate ==
    /\ budget.forged < MaxForged
    /\ \E bundle \in DegenerateBundles, up \in BOOLEAN :
         LET r == registerHandler("bob", bundle, up) IN
         /\ rdbBundle' = r.bundles
         /\ stats' = r.stats
    /\ budget' = [budget EXCEPT !.forged = @ + 1]
    /\ UNCHANGED <<rdbMessages, aliceVars, bobVars, chat, ghostVars, test>>

\* a byte string that differs from the sealed box x in one byte
Flip(x) == [x EXCEPT !.kind = "flipped"]

\* the copies of an envelope such a client may make: the nonce with a byte
\* changed or cut off, the ciphertext with a byte changed or a character
\* appended to its hex, a key field cut short or made longer, left empty as
\* sendMessage of chat.go leaves it, or set to the zero point
Altered(m) ==
    LET nonce == m.Nonce.hexOf.a
        IKa == DecodeString(m.AliceIK).raw
        EKa == DecodeString(m.AliceEKa).raw
    IN {[kind |-> "nonce",
         msg |-> [m EXCEPT !.Nonce =
                    HexEncodeBlob(BytesBlob([nonce EXCEPT ![1] = (@ + 1) % 256]))]],
        [kind |-> "nonce",
         msg |-> [m EXCEPT !.Nonce =
                    HexEncodeBlob(BytesBlob(SubSeq(nonce, 1, Len(nonce) - 1)))]],
        [kind |-> "ciphertext",
         msg |-> [m EXCEPT !.Ciphertext = HexEncodeBlob(Flip(m.Ciphertext.hexOf))]],
        [kind |-> "ciphertext",
         msg |-> [m EXCEPT !.Ciphertext = [hexOf |-> m.Ciphertext.hexOf, junk |-> <<"z">>]]],
        [kind |-> "key",
         msg |-> [m EXCEPT !.AliceIK = EncodeToString(SubSeq(IKa, 1, Len(IKa) - 1))]],
        [kind |-> "key",
         msg |-> [m EXCEPT !.AliceEKa = EncodeToString(EKa \o <<7>>)]],
        [kind |-> "key",
         msg |-> [m EXCEPT !.AliceIK = <<>>]],
        [kind |-> "key",
         msg |-> [m EXCEPT !.AliceEKa = encode32(Zero32)]]}

\* a client reads bob's history and POSTs an altered copy of an envelope of
\* alice to /send/bob
RawResend ==
    /\ budget.resent < MaxResend
    /\ \E i \in DOMAIN rdbMessages["bob"], up \in BOOLEAN :
         /\ rdbMessages["bob"][i].src.by = "alice"
         /\ historyHandler("bob", TRUE).status = 200
         /\ \E x \in Altered(historyHandler("bob", TRUE).messages[i]) :
              LET src == rdbMessages["bob"][i].src
                  r == sendMessageHandler("bob", x.msg,
                                          Source(x.kind, src.master, src.pt, src.bundle), up)
              IN /\ rdbMessages' = r.messages
                 /\ nextId' = r.nextId
    /\ budget' = [budget EXCEPT !.resent = @ + 1]
    /\ UNCHANGED <<rdbBundle, stats, aliceVars, bobVars, chat, popLog, test>>

\* the bundles such a client may POST to /register/bob with a key of the
\* wrong length: the stored one with a public key cut short or made longer
MalformedBundles ==
    IF rdbBundle["bob"] = None THEN {}
    ELSE LET b == rdbBundle["bob"][1]
             short(h) == EncodeToString(SubSeq(DecodeString(h).raw, 1, Len(DecodeString(h).raw) - 1))
             long(h) == EncodeToString(DecodeString(h).raw \o <<7>>)
         IN {[b EXCEPT !.IK = short(b.IK)], [b EXCEPT !.IK = long(b.IK)],
             [b EXCEPT !.SPK = short(b.SPK)], [b EXCEPT !.SPK = long(b.SPK)],
             [b EXCEPT !.OTK = short(b.OTK)], [b EXCEPT !.OTK = long(b.OTK)]}

RawRegisterMalformed ==
    /\ budget.forged < MaxForged
    /\ \E bundle \in MalformedBundles, up \in BOOLEAN :
         LET r == registerHandler("bob", bundle, up) IN
         /\ rdbBundle' = r.bundles
         /\ stats' = r.stats
    /\ budget' = [budget EXCEPT !.forged = @ + 1]
    /\ UNCHANGED <<rdbMessages, aliceVars, bobVars, chat, ghostVars, test>>

\* ------------------------------------------- clients of the bare HTTP API
\* the bundles and envelopes a client of the API sends, for any user
ApiBundles ==
    {BobBundle(GenKeyPair(BobSeed(r, 0)).pub, GenKeyPair(BobSeed(r, 1)).pub,
               GenKeyPair(BobSeed(r, 2)).pub, NewKeyFromSeed(Le32(EdSeed(r)))) : r \in {1, 2}}

ApiEnvelopes == {ChatMessage(sender, text) : sender \in Users, text \in ChatTexts}

\* POST /register/<user>
ApiRegisterWith(user, bundle, up) ==
    /\ budget.api < MaxApi
    /\ LET r == registerHandler(user, bundle, up) IN
       /\ rdbBundle' = r.bundles
       /\ stats' = r.stats
    /\ budget' = [budget EXCEPT !.api = @ + 1]
    /\ UNCHANGED <<rdbMessages, aliceVars, bobVars, chat, ghostVars, test>>

ApiRegister(user) == \E bundle \in ApiBundles, up \in BOOLEAN : ApiRegisterWith(user, bundle, up)

\* GET /bundle/<user>
ApiBundle(user) ==
    /\ \E up \in BOOLEAN :
       LET r == bundleHandler(user, up) IN
       /\ r.status \in {200, 404}
       /\ rdbBundle' = r.bundles
    /\ UNCHANGED <<rdbMessages, stats, aliceVars, bobVars, chat, budget, ghostVars, test>>

\* POST /send/<user>
ApiSendWith(user, msg, up) ==
    /\ budget.api < MaxApi
    /\ LET r == sendMessageHandler(user, msg, ChatSource, up) IN
       /\ rdbMessages' = r.messages
       /\ nextId' = r.nextId
    /\ budget' = [budget EXCEPT !.api = @ + 1]
    /\ UNCHANGED <<rdbBundle, stats, aliceVars, bobVars, chat, popLog, test>>

ApiSend(user) == \E msg \in ApiEnvelopes, up \in BOOLEAN : ApiSendWith(user, msg, up)

\* GET /messages/<user>: LPOP, then LLEN for a response nobody keeps
ApiMessages(user) ==
    /\ \E up \in BOOLEAN, up2 \in BOOLEAN :
       LET r == LPop(user, up) IN
       /\ r.status = 200 => getMessageResponse(user, r.data, up2).status = 200
       /\ rdbMessages' = r.messages
       /\ popLog' = Popped(user, r)
    /\ UNCHANGED <<rdbBundle, stats, aliceVars, bobVars, chat, budget, nextId, test>>

\* GET /history/<user>
RawHistory(user) ==
    /\ \E up \in BOOLEAN :
       LET r == historyHandler(user, up) IN
       /\ r.status \in {200, 500}
       /\ rdbMessages' = r.queue
    /\ UNCHANGED <<rdbBundle, stats, aliceVars, bobVars, chat, budget, ghostVars, test>>

StatsInit == [TotalBundlesRegistered |-> 0, TotalMessagesReceived |-> 0,
              TotalMessagesDelivered |-> 0, ActiveBundles |-> 0, PendingMessages |-> 0]

\* updateStats under GetStats: what statsHandler reports
GetStats == [stats EXCEPT !.ActiveBundles = 0, !.PendingMessages = 0]

\* POST /register/<user>; ghost: budget.registered counts the requests of
\* this client that were answered with 200
StatsRegisterWith(user, bundle, up) ==
    /\ budget.api < MaxApi
    /\ LET r == registerHandler(user, bundle, up) IN
       /\ rdbBundle' = r.bundles
       /\ stats' = r.stats
       /\ budget' = [budget EXCEPT !.api = @ + 1,
                                   !.registered = IF r.status = 200 THEN @ + 1 ELSE @]
    /\ UNCHANGED <<rdbMessages, aliceVars, bobVars, chat, ghostVars, test>>

StatsRegister(user) ==
    \E bundle \in ApiBundles, up \in BOOLEAN : StatsRegisterWith(user, bundle, up)

\* two POST /register requests served at the same time, both answered with
\* 200: net/http runs each handler in its own goroutine, both SETs are done
\* one after the other, and s.stats.TotalBundlesRegistered++ is a read and a
\* write with no lock, so that both increments count or one of them is lost
StatsRegisterRace ==
    /\ budget.api + 2 <= MaxApi
    /\ \E u1 \in Users, u2 \in Users, b1 \in ApiBundles, b2 \in ApiBundles, lost \in BOOLEAN :
         /\ rdbBundle' = [[rdbBundle EXCEPT ![u1] = Some(b1)] EXCEPT ![u2] = Some(b2)]
         /\ stats' = [stats EXCEPT !.TotalBundlesRegistered = IF lost THEN @ + 1 ELSE @ + 2]
    /\ budget' = [budget EXCEPT !.api = @ + 2, !.registered = @ + 2]
    /\ UNCHANGED <<rdbMessages, aliceVars, bobVars, chat, ghostVars, test>>

\* ------------------------------------------- the unit tests of internal/x3dh
TestSeeds == 0..MaxSeed

TestInit == [pc |-> "none", a |-> 0, b |-> 0, shared1 |-> Zero32, shared2 |-> Zero32,
             err |-> FALSE]

\* TestDH: two generated key pairs, DH both ways round
TestDH ==
    /\ \E a \in TestSeeds, b \in TestSeeds :
         LET k1 == GenKeyPair(a)
             k2 == GenKeyPair(b)
             r1 == DH(k1.priv, k2.pub)
             r2 == DH(k2.priv, k1.pub)
         IN test' = [pc |-> "TestDH", a |-> a, b |-> b, shared1 |-> r1.out,
                     shared2 |-> r2.out, err |-> r1.err \/ r2.err]
    /\ UNCHANGED <<serverVars, aliceVars, bobVars, chat, budget, ghostVars>>

\* the peer keys of the error tests: the all-zero key, its other encoding
\* (the prime itself) and generated public keys
TestPeers == {Zero32, Le32(GroupP)} \cup {GenKeyPair(b).pub : b \in TestSeeds}

\* TestDH_Errors and TestDH_InvalidPublicKey, and DH on any of the peer keys
\* with a generated or a nil private key
TestDH_Errors ==
    /\ \E a \in TestSeeds, peer \in TestPeers, nilPriv \in BOOLEAN :
         LET k == GenKeyPair(a)
             priv == IF nilPriv THEN NilKey ELSE k.priv
         IN
         test' = [pc |-> "TestDH_Errors", a |-> a, priv |-> priv, peer |-> peer,
                  nilKey |-> DH(NilKey, k.pub),
                  invalidPub |-> DH(k.priv, Zero32),
                  any |-> DH(priv, peer)]
    /\ UNCHANGED <<serverVars, aliceVars, bobVars, chat, budget, ghostVars>>

\* the [32]byte values of the encoding tests, with bytes over the whole range
TestKeys == {[i \in 1..KeySize |-> (37 * a + 51 * i) % 256] : a \in TestSeeds}

\* the strings of TestValidatePublicKey, TestDecode32_InvalidHex and
\* TestDecode32_WrongLength, built from the encoding h of a key
TestVariants ==
    {"valid", "upper", "short", "long", "odd", "empty", "nothex", "badFirst", "badLast",
     "twice"}

TestString(h, variant) ==
    CASE variant = "valid" -> h
      [] variant = "upper" -> [i \in DOMAIN h |-> UpperDigits[FromHexChar(h[i]) + 1]]
      [] variant = "short" -> SubSeq(h, 1, Len(h) - 2)
      [] variant = "long" -> h \o <<"2", "1">>
      [] variant = "odd" -> SubSeq(h, 1, Len(h) - 1)
      [] variant = "empty" -> <<>>
      [] variant = "nothex" -> <<"n", "o", "t", "h", "e", "x", "!", "!">>
      [] variant = "badFirst" -> [h EXCEPT ![1] = "g"]
      [] variant = "badLast" -> [h EXCEPT ![Len(h)] = " "]
      [] variant = "twice" -> h \o h

\* TestEncodeDecode32, TestValidatePublicKey, TestDecode32_InvalidHex and
\* TestDecode32_WrongLength
TestEncodeDecode32 ==
    /\ \E original \in TestKeys, variant \in TestVariants :
         LET encoded == x3dh_encode32(original)
             input == TestString(encoded, variant)
         IN test' = [pc |-> "TestEncodeDecode32", original |-> original,
                     encoded |-> encoded, decoded |-> x3dh_decode32(encoded),
                     input |-> input, result |-> x3dh_decode32(input),
                     invalid |-> ValidatePublicKey(input)]
    /\ UNCHANGED <<serverVars, aliceVars, bobVars, chat, budget, ghostVars>>

\* TestKDF and TestKDF_ZeroInputs, with the two blocks drawn and the order of
\* the blocks exchanged as well
TestKDF ==
    /\ \E a \in TestSeeds, b \in TestSeeds :
         LET data1 == Le32(a)
             data2 == Le32(b)
         IN test' = [pc |-> "TestKDF", a |-> a, b |-> b,
                     result1 |-> KDF(<<data1>>),
                     result2 |-> KDF(<<data1, data2>>),
                     result3 |-> KDF(<<data1, data2>>),
                     swapped |-> KDF(<<data2, data1>>),
                     zero |-> KDF(<<>>)]
    /\ UNCHANGED <<serverVars, aliceVars, bobVars, chat, budget, ghostVars>>

\* ------------------------------------------------------------ specification

Init ==
    /\ rdbBundle = [u \in Users |-> None]
    /\ rdbMessages = [u \in Users |-> <<>>]
    /\ stats = StatsInit
    /\ aliceKeyFile = None
    /\ alice = AliceInit
    /\ bobKeyFile = None
    /\ bob = BobInit
    /\ chat = [c \in ChatClients |-> ChatInit]
    /\ budget = [sessions |-> 0, regs |-> 0, forged |-> 0, chat |-> 0, resent |-> 0, api |-> 0,
                deleted |-> 0, registered |-> 0]
    /\ nextId = 0
    /\ popLog = [u \in Users |-> <<>>]
    /\ test = TestInit

\* the X3DH exchange: cmd/alice, cmd/bob, and a client that overwrites bundles
Next ==
    \/ AliceRun
    \/ AliceSend
    \/ BobRegister
    \/ BobRegisterRefused
    \/ DeleteKeyFile
    \/ BobCheck
    \/ BobReceive
    \/ RawRegister

Spec == Init /\ [][Next]_vars

\* the mailbox under the chat front ends and history readers
NextMailbox ==
    \/ \E c \in ChatClients : ChatSend(c)
    \/ \E c \in ChatClients : ChatPoll(c)
    \/ \E c \in ChatClients : ChatReceive(c)
    \/ \E u \in Users : RawHistory(u)

SpecMailbox == Init /\ [][NextMailbox]_vars

\* cmd/alice and cmd/bob over several runs, with their key files
NextKeys ==
    \/ AliceRunUpTo(MaxRuns)
    \/ AliceSend
    \/ BobRegisterAnyDisk(MaxKeyGens)
    \/ BobRegisterRefused
    \/ DeleteKeyFile
    \/ BobCheck
    \/ BobReceive

SpecKeys == Init /\ [][NextKeys]_vars

\* the X3DH exchange with a client that alters what it reads from the server
NextIntruder ==
    \/ BobRegister
    \/ AliceRun
    \/ AliceSend
    \/ BobCheck
    \/ BobReceive
    \/ RawResend
    \/ RawRegisterMalformed

SpecIntruder == Init /\ [][NextIntruder]_vars

\* the server under clients of its bare API, for every user, and cmd/alice
NextServer ==
    \/ \E u \in Users : ApiRegister(u)
    \/ \E u \in Users : ApiBundle(u)
    \/ \E u \in Users : ApiSend(u)
    \/ \E u \in Users : ApiMessages(u)
    \/ \E u \in Users : RawHistory(u)
    \/ AliceRun
    \/ AliceSend

SpecServer == Init /\ [][NextServer]_vars

\* the unit tests
NextTest ==
    \/ TestDH
    \/ TestKDF
    \/ TestDH_Errors

SpecTest == Init /\ [][NextTest]_vars

\* the server under clients that register, send and fetch, one after the
\* other or two at a time
NextStats ==
    \/ \E u \in Users : StatsRegister(u)
    \/ StatsRegisterRace
    \/ \E u \in Users : ApiSend(u)
    \/ \E u \in Users : ApiMessages(u)

SpecStats == Init /\ [][NextStats]_vars

\* a check of bob that Redis answers
BobCheckServed == BobCheck /\ bob'.status \in {200, 404}

\* cmd/bob checking again and again while alice sends: a check that was
\* started goes on to its end, and Redis does not fail for ever
NextDrain ==
    \/ BobRegister
    \/ AliceRunUpTo(MaxRuns)
    \/ AliceSend
    \/ BobCheck
    \/ BobReceive

\* BobReceive can be taken exactly while a check of bob is under way
BobReceiveEnabled == bob.pc = "Polling"

\* what BobReceive makes of bob when Redis is up, or is not
BobReceived(up) ==
    Then(Then(BobDequeued(bob, getMessageResponse("bob", bob.popped, up)),
              "Dequeued", BobDerive), "SecretRederived", BobOpen)

\* weak fairness of BobReceive, with ENABLED <<BobReceive>>_vars written out
\* as BobReceiveEnabled: the process of cmd/bob runs on once it was started
FairBobReceive == []<>(~BobReceiveEnabled) \/ []<><<BobReceive>>_vars

SpecDrain ==
    Init /\ [][NextDrain]_vars /\ WF_vars(BobCheckServed) /\ FairBobReceive

\* cmd/bob with a key file that may be missing or damaged
NextCheck ==
    \/ BobRegister
    \/ BobRegisterRefused
    \/ DeleteKeyFile
    \/ DamageKeyFile
    \/ AliceRunUpTo(MaxRuns)
    \/ AliceSend
    \/ BobCheck
    \/ BobReceive

SpecCheck == Init /\ [][NextCheck]_vars

\* cmd/alice one step of main at a time, against bundles of bob and of others
NextSession ==
    \/ AliceBegin
    \/ AliceStepVerify
    \/ AliceStepDerive
    \/ AliceStepEncrypt
    \/ AliceSend
    \/ BobRegister
    \/ RawRegister
    \/ RawRegisterDegenerate

SpecSession == Init /\ [][NextSession]_vars

\* the unit tests of the hex encoding of keys
NextCodec == TestEncodeDecode32

SpecCodec == Init /\ [][NextCodec]_vars

\* --------------------------------------------------------------- properties
\* the envelope bob's check dequeued was built by cmd/alice, and the check is
\* past its last step
FromAlice == bob.popped # None /\ bob.popped[1].src.by = "alice"
BobDone == bob.pc \in {"Decrypted", "Failed"}

\* the bundle alice fetched for the envelope bob dequeued
FetchedBundle == bob.popped[1].src.bundle[1]

\* the private keys bob loaded are those of the public keys in the bundle
BobHolds(bundle) ==
    /\ bob.IKbPriv # NilKey /\ PublicKeyOf(bob.IKbPriv) = decode32(bundle.IK).out
    /\ bob.SPKbPriv # NilKey /\ PublicKeyOf(bob.SPKbPriv) = decode32(bundle.SPK).out
    /\ bob.OTKbPriv # NilKey /\ PublicKeyOf(bob.OTKbPriv) = decode32(bundle.OTK).out

\* the i-th of the four values the initiator passed to the KDF
AliceDHOf(src, i) == SubSeq(src.master.a, (i - 1) * KeySize + 1, i * KeySize)

\* C1: for every envelope alice built from a bundle whose keys bob holds, the
\* session key bob derives for that envelope is the one alice derived.
C1_SessionKeysAgree ==
    (FromAlice /\ BobDone /\ BobHolds(FetchedBundle))
        => bob.master = Some(bob.popped[1].src.master)

C1_Witness ==
    /\ FromAlice
    /\ BobHolds(FetchedBundle)
    /\ bob.pc = "Decrypted"
    /\ bob.master = Some(bob.popped[1].src.master)

\* C2: alice's DH1..DH4 are DH(identity priv, SPKb), DH(ephemeral priv, IKb),
\* DH(ephemeral priv, SPKb), DH(ephemeral priv, OTKb); bob's are the mirrored
\* DH(SPKb priv, IKa), DH(IKb priv, EKa), DH(SPKb priv, EKa), DH(OTKb priv, EKa);
\* each side hands its four values to the KDF in that order, and slot by slot
\* the two sides' values are equal.
C2_SlotsMirror ==
    /\ Len(alice.dh) = 4 =>
         LET b == alice.bobBundle[1] IN
         /\ alice.dh[1] = DH(alice.alicePriv, decode32(b.SPK).out).out
         /\ alice.dh[2] = DH(alice.privEKa, decode32(b.IK).out).out
         /\ alice.dh[3] = DH(alice.privEKa, decode32(b.SPK).out).out
         /\ alice.dh[4] = DH(alice.privEKa, decode32(b.OTK).out).out
         /\ alice.master = Some(KDF(<<alice.dh[1], alice.dh[2], alice.dh[3], alice.dh[4]>>))
    /\ Len(bob.dh) = 4 =>
         LET m == bob.msg[1] IN
         /\ bob.dh[1] = DH(bob.SPKbPriv, decode32(m.AliceIK).out).out
         /\ bob.dh[2] = DH(bob.IKbPriv, decode32(m.AliceEKa).out).out
         /\ bob.dh[3] = DH(bob.SPKbPriv, decode32(m.AliceEKa).out).out
         /\ bob.dh[4] = DH(bob.OTKbPriv, decode32(m.AliceEKa).out).out
         /\ bob.master = Some(KDF(<<bob.dh[1], bob.dh[2], bob.dh[3], bob.dh[4]>>))
    /\ (FromAlice /\ BobDone /\ BobHolds(FetchedBundle)) =>
         /\ Len(bob.dh) = 4
         /\ \A i \in 1..4 : bob.dh[i] = AliceDHOf(bob.popped[1].src, i)

C2_Witness ==
    /\ FromAlice
    /\ BobHolds(FetchedBundle)
    /\ Len(alice.dh) = 4
    /\ Len(bob.dh) = 4
    /\ \A i \in 1..4 : bob.dh[i] = AliceDHOf(bob.popped[1].src, i)
    /\ bob.dh[2] # bob.dh[3]

\* C3: for two generated key pairs, DH(a_priv, b_pub) succeeds, equals
\* DH(b_priv, a_pub) and is not the all-zero value.
C3_DHCommutes ==
    test.pc = "TestDH" =>
        /\ ~test.err
        /\ test.shared1 = test.shared2
        /\ test.shared1 # Zero32

C3_Witness ==
    /\ test.pc = "TestDH"
    /\ test.a # test.b
    /\ ~test.err
    /\ test.shared1 = test.shared2
    /\ test.shared1 # Zero32

\* C4: a check of bob that dequeued an envelope of alice built from a bundle
\* whose keys bob holds ends with the envelope opened; and every plaintext bob
\* obtains from an envelope is the plaintext that was sealed into it.
C4_Delivery ==
    (FromAlice /\ BobDone) =>
        /\ BobHolds(FetchedBundle) => bob.pc = "Decrypted"
        /\ bob.pc = "Decrypted" => bob.plaintext = bob.popped[1].src.pt

C4_Witness ==
    /\ FromAlice
    /\ bob.pc = "Decrypted"
    /\ bob.plaintext \in Plaintexts
    /\ bob.plaintext = bob.popped[1].src.pt

\* the ids of the envelopes in a user's queue, head first
QueueIds(u) == [i \in 1..Len(rdbMessages[u]) |-> rdbMessages[u][i].id]

\* what dequeues for u returned so far, followed by what they will return
Served(u) == popLog[u] \o QueueIds(u)

Increasing(q) == \A i, j \in DOMAIN q : i < j => q[i] < q[j]

\* C5: the queue of a user is FIFO: dequeues return the envelopes enqueued
\* for the user in the order of their enqueues, none skipped; and a dequeue
\* that Redis answers on an emptied queue reports 404.
C5_Fifo ==
    /\ \A u \in Users : Increasing(Served(u))
    /\ UNION {{Served(u)[i] : i \in DOMAIN Served(u)} : u \in Users} = 1..nextId
    /\ \A u \in Users :
         IF rdbMessages[u] = <<>>
         THEN /\ LPop(u, TRUE).status = 404
              /\ LPop(u, TRUE).data = None
              /\ LPop(u, TRUE).messages = rdbMessages
         ELSE /\ LPop(u, TRUE).status = 200
              /\ LPop(u, TRUE).data = Some(Head(rdbMessages[u]))

C5_Witness ==
    \E u \in Users :
        /\ Len(popLog[u]) = 3
        /\ Increasing(popLog[u])
        /\ rdbMessages[u] = <<>>
        /\ LPop(u, TRUE).status = 404

\* every id a dequeue returned, for any user
Delivered == popLog["alice"] \o popLog["bob"]

\* C6: under any interleaving of enqueues, dequeues and history reads, with
\* several consumers on one queue, no envelope is returned by two dequeues, a
\* returned envelope is no longer queued, and the dequeues that succeeded are
\* no more than the enqueues that succeeded.
C6_AtMostOnce ==
    /\ \A i, j \in DOMAIN Delivered : i # j => Delivered[i] # Delivered[j]
    /\ \A u \in Users : \A i \in DOMAIN popLog[u] : \A k \in DOMAIN QueueIds(u) :
         popLog[u][i] # QueueIds(u)[k]
    /\ \A c, d \in ChatClients :
         (c # d /\ chat[c].popped # None /\ chat[d].popped # None)
             => chat[c].popped[1].id # chat[d].popped[1].id
    /\ Len(Delivered) <= nextId

C6_Witness ==
    /\ chat["bob"].pc = "popped"
    /\ chat["bob#2"].pc = "popped"
    /\ chat["bob"].popped[1].id # chat["bob#2"].popped[1].id
    /\ Len(popLog["bob"]) = 2

\* the signature of a bundle verifies over the bundle's signed pre-key under
\* the bundle's verify key
BundleVerifies(b) ==
    Verify(HexDecodeBlob(b.Ed25519).raw, decode32(b.SPK).out, HexDecodeBlob(b.Sig).raw).ok

\* the envelopes of alice that are queued for bob or were dequeued by him
AliceEnvelopes ==
    {rdbMessages["bob"][i] : i \in DOMAIN rdbMessages["bob"]}
    \cup {bob.popped[i] : i \in DOMAIN bob.popped}

\* C7: when the signature of the fetched bundle does not verify, alice's run
\* stops at the verification: no ephemeral key, no DH value, no session key,
\* no ciphertext, and no envelope built from such a bundle is ever enqueued.
C7_AbortOnBadSignature ==
    /\ (alice.bobBundle # None /\ ~BundleVerifies(alice.bobBundle[1])) =>
         /\ alice.pc = "Failed"
         /\ alice.err = "SignatureVerification"
         /\ alice.privEKa = NilKey
         /\ alice.dh = <<>>
         /\ alice.master = None
         /\ alice.ciphertext = None
    /\ \A e \in AliceEnvelopes : BundleVerifies(e.src.bundle[1])

C7_Witness ==
    /\ alice.bobBundle # None
    /\ ~BundleVerifies(alice.bobBundle[1])
    /\ alice.err = "SignatureVerification"

\* the key triples published by whoever holds the signing key of edPub: bob
\* at one of his registrations, or the third party
HolderPublished(edPub) ==
    {[IK |-> GenKeyPair(BobSeed(r, 0)).pub, SPK |-> GenKeyPair(BobSeed(r, 1)).pub,
      OTK |-> GenKeyPair(BobSeed(r, 2)).pub] :
        r \in {q \in 1..budget.regs :
                 BytesBlob(EdPublic(NewKeyFromSeed(Le32(EdSeed(q))))) = edPub}}
    \cup (IF edPub = BytesBlob(EdPublic(MalloryEd))
          THEN {[IK |-> MalloryKey.pub, SPK |-> MalloryKey.pub, OTK |-> MalloryKey.pub]}
          ELSE {})

\* the three public keys alice decodes from the bundle she fetched
UsedKeys(b) ==
    [IK |-> decode32(b.IK).out, SPK |-> decode32(b.SPK).out, OTK |-> decode32(b.OTK).out]

C9_NoBundle ==
    [][(AliceRun /\ rdbBundle["bob"] = None) =>
          /\ alice'.pc = "Failed"
          /\ alice'.err = "BundleNotFound"
          /\ alice'.bobBundle = None
          /\ alice'.privEKa = NilKey
          /\ alice'.dh = <<>>
          /\ alice'.master = None
          /\ alice'.ciphertext = None
          /\ rdbMessages' = rdbMessages]_vars

C9_Witness ==
    /\ alice.pc = "Failed"
    /\ alice.err = "BundleNotFound"
    /\ rdbBundle["bob"] = None
    /\ rdbMessages["bob"] = <<>>

\* C10: a check of bob, with his keys on file, that Redis answers on an empty
\* queue ends in the no-message state without an error: no DH value, no
\* session key, no plaintext, and the bundle slots and the queues as they were.
C10_EmptyCheck ==
    [][(BobCheck /\ bobKeyFile # None /\ rdbMessages["bob"] = <<>> /\ bob'.status # 500) =>
          /\ bob'.pc = "NoMessage"
          /\ bob'.err = ""
          /\ bob'.status = 404
          /\ bob'.msg = None
          /\ bob'.dh = <<>>
          /\ bob'.master = None
          /\ bob'.plaintext = NoBytes
          /\ rdbBundle' = rdbBundle
          /\ rdbMessages' = rdbMessages]_vars

C10_Witness ==
    /\ bob.pc = "NoMessage"
    /\ bob.status = 404
    /\ bob.dh = <<>>
    /\ rdbMessages["bob"] = <<>>

\* C11: when bob's Open fails, the envelope is already out of the queue: no
\* queue and no history read holds it, nothing was decrypted, and no envelope
\* a dequeue for bob returned is ever queued or returned again.
C11_ConsumedBeforeOpen ==
    /\ (bob.popped # None /\ bob.pc = "Failed" /\ bob.err = "DecryptionFailed") =>
         LET e == bob.popped[1] IN
         /\ \A u \in Users : \A k \in DOMAIN QueueIds(u) : QueueIds(u)[k] # e.id
         /\ \A i \in DOMAIN historyHandler("bob", TRUE).messages :
              historyHandler("bob", TRUE).messages[i] # e.msg
         /\ Cardinality({i \in DOMAIN popLog["bob"] : popLog["bob"][i] = e.id}) = 1
         /\ bob.plaintext = NoBytes
    /\ \A i \in DOMAIN popLog["bob"] :
         /\ \A k \in DOMAIN QueueIds("bob") : QueueIds("bob")[k] # popLog["bob"][i]
         /\ \A j \in DOMAIN popLog["bob"] : i # j => popLog["bob"][i] # popLog["bob"][j]

C11_Witness ==
    /\ FromAlice
    /\ bob.pc = "Failed"
    /\ bob.err = "DecryptionFailed"
    /\ bob.popped[1].id \in {popLog["bob"][i] : i \in DOMAIN popLog["bob"]}
    /\ rdbMessages["bob"] = <<>>

\* C12 as stated: when the nonce or the ciphertext of an envelope was altered
\* after sealing, or the key bob derives is not the key it was sealed under,
\* bob's Open reports the decryption failure and no plaintext is produced.
C12_FailsClosed ==
    (/\ bob.popped # None
     /\ BobDone
     /\ Len(bob.dh) = 4
     /\ \/ bob.popped[1].src.by \in {"nonce", "ciphertext"}
        \/ bob.master # Some(bob.popped[1].src.master))
        => /\ bob.pc = "Failed"
           /\ bob.err = "DecryptionFailed"
           /\ bob.plaintext = NoBytes

\* the all-zero [32]byte, as the value a digest is compared with
ZeroDigest == BytesBlob(Zero32)

WellFormedKey(h) == ~DecodeString(h).err /\ Len(DecodeString(h).raw) = KeySize

\* C14 as stated: no DH is computed by alice unless each public key of the
\* fetched bundle, and none by bob unless each public key of the envelope, is
\* valid hex of exactly 32 bytes.
C14_KeyLengthChecked ==
    /\ alice.dh # <<>> =>
         /\ WellFormedKey(alice.bobBundle[1].IK)
         /\ WellFormedKey(alice.bobBundle[1].SPK)
         /\ WellFormedKey(alice.bobBundle[1].OTK)
    /\ bob.dh # <<>> =>
         /\ WellFormedKey(bob.msg[1].AliceIK)
         /\ WellFormedKey(bob.msg[1].AliceEKa)

\* C15: a publication that Redis answers leaves the published bundle as the
\* one bundle of the user, the one a fetch then returns, whatever was stored
\* before; publishing the bundle that is already stored leaves bundle slots
\* and queues as they were.
C15_PutBundle ==
    [][\A u \in Users, bundle \in ApiBundles :
         ApiRegisterWith(u, bundle, TRUE) =>
            /\ rdbBundle'[u] = Some(bundle)
            /\ GetBundle(u, TRUE).exists'
            /\ GetBundle(u, TRUE).bundle' = Some(bundle)
            /\ bundleHandler(u, TRUE).status' = 200
            /\ bundleHandler(u, TRUE).bundle' = Some(bundle)
            /\ rdbMessages' = rdbMessages
            /\ rdbBundle[u] = Some(bundle) => rdbBundle' = rdbBundle]_vars

C15_Witness ==
    /\ stats.TotalBundlesRegistered = 2
    /\ rdbBundle["alice"] = None
    /\ rdbBundle["bob"] # None
    /\ Len(rdbBundle["bob"]) = 1

\* C16: a fetch of a bundle, by the initiator or by any client of the API,
\* leaves every bundle slot and every queue as it was, the one-time prekey
\* included; the bundle an initiator session receives is the stored one, so
\* all sessions between two publications receive the same bundle.
C16_FetchFrame ==
    [][/\ (AliceRun \/ \E u \in Users : ApiBundle(u)) =>
            /\ rdbBundle' = rdbBundle
            /\ rdbMessages' = rdbMessages
            /\ popLog' = popLog
       /\ (AliceRun /\ alice'.bobBundle # None) =>
            /\ alice'.bobBundle = rdbBundle["bob"]
            /\ alice'.bobBundle[1].OTK = rdbBundle'["bob"][1].OTK
       /\ \A u \in Users :
            /\ GetBundle(u, TRUE).bundle = rdbBundle[u]
            /\ bundleHandler(u, TRUE).bundle = rdbBundle[u]]_vars

C16_Witness ==
    /\ alice.pc = "Sent"
    /\ alice.bobBundle # None
    /\ alice.bobBundle = rdbBundle["bob"]
    /\ stats.TotalBundlesRegistered = 1

\* C17: a history read that Redis answers returns every envelope of the
\* user's queue, in the order of their enqueues, and leaves every queue as it
\* was: the dequeue after it returns the head it would have returned before,
\* which is the first envelope of the history.
C17_HistoryReads ==
    /\ [](\A u \in Users :
            LET h == historyHandler(u, TRUE) IN
            /\ h.status = 200
            /\ Len(h.messages) = Len(rdbMessages[u])
            /\ \A i \in DOMAIN h.messages : h.messages[i] = rdbMessages[u][i].msg
            /\ Increasing(QueueIds(u))
            /\ h.messages # <<>> => LPop(u, TRUE).data[1].msg = h.messages[1])
    /\ [][\A u \in Users :
            RawHistory(u) =>
               /\ rdbMessages' = rdbMessages
               /\ popLog' = popLog
               /\ LPop(u, TRUE).data' = LPop(u, TRUE).data]_vars

C17_Witness ==
    /\ Len(historyHandler("bob", TRUE).messages) = 3
    /\ historyHandler("bob", TRUE).messages[1] # historyHandler("bob", TRUE).messages[2]
    /\ LPop("bob", TRUE).data[1].msg = historyHandler("bob", TRUE).messages[1]
    /\ historyHandler("alice", TRUE).messages = <<>>

\* C18: an enqueue that Redis answers appends one entry holding the posted
\* envelope to the tail of the user's queue, also when an identical envelope
\* is queued already; every entry is removed by a dequeue of its own, so the
\* entries queued and the entries dequeued are as many as the enqueues.
C18_EnqueueAppends ==
    /\ [](Len(rdbMessages["alice"]) + Len(rdbMessages["bob"])
            + Len(popLog["alice"]) + Len(popLog["bob"]) = nextId)
    /\ [][\A u \in Users :
            /\ \A msg \in ApiEnvelopes :
                 ApiSendWith(u, msg, TRUE) =>
                    /\ Len(rdbMessages'[u]) = Len(rdbMessages[u]) + 1
                    /\ SubSeq(rdbMessages'[u], 1, Len(rdbMessages[u])) = rdbMessages[u]
                    /\ rdbMessages'[u][Len(rdbMessages'[u])].msg = msg
                    /\ rdbMessages'[u][Len(rdbMessages'[u])].id = nextId + 1
                    /\ sendMessageHandler(u, msg, ChatSource, TRUE).status = 200
            /\ (ApiMessages(u) /\ popLog' # popLog) =>
                    /\ popLog'[u] = Append(popLog[u], Head(rdbMessages[u]).id)
                    /\ rdbMessages'[u] = Tail(rdbMessages[u])]_vars

C18_Witness ==
    /\ Len(rdbMessages["bob"]) = 2
    /\ rdbMessages["bob"][1].msg = rdbMessages["bob"][2].msg
    /\ rdbMessages["bob"][1].id # rdbMessages["bob"][2].id
    /\ LPop("bob", TRUE).messages["bob"] = <<rdbMessages["bob"][2]>>

\* C19: a publication, a bundle fetch, an enqueue, a dequeue or a history
\* read for a user leaves the bundle slot, the queue and the dequeue log of
\* every other user as they were, wherever it falls among other requests.
C19_UsersIndependent ==
    [][\A u \in Users : \A v \in Users \ {u} :
         (ApiRegister(u) \/ ApiBundle(u) \/ ApiSend(u) \/ ApiMessages(u) \/ RawHistory(u)) =>
            /\ rdbBundle'[v] = rdbBundle[v]
            /\ rdbMessages'[v] = rdbMessages[v]
            /\ popLog'[v] = popLog[v]]_vars

C19_Witness ==
    /\ rdbBundle["alice"] # None
    /\ rdbBundle["bob"] = None
    /\ rdbMessages["alice"] = <<>>
    /\ rdbMessages["bob"] # <<>>

\* C20: the messages_left of a dequeue response, when Redis answered the
\* count, is the length the user's queue had right after the removal of the
\* returned envelope, whatever other enqueues and dequeues for the user ran
\* in between.
C20_RemainingCount ==
    \A c \in ChatClients :
        (chat[c].pc = "idle" /\ chat[c].sender # "" /\ chat[c].counted)
            => chat[c].left = chat[c].after

\* C21: DH with a nil private key, and DH with the all-zero peer key, return
\* an error and the zero value; whatever the keys, DH returns an error with
\* the zero value or a value without an error, and a peer key that stands for
\* zero is always an error.
C21_DHErrors ==
    test.pc = "TestDH_Errors" =>
        /\ test.nilKey.err /\ test.nilKey.out = Zero32
        /\ test.invalidPub.err /\ test.invalidPub.out = Zero32
        /\ test.any.err => test.any.out = Zero32
        /\ test.priv = NilKey => test.any.err
        /\ LeMod(test.peer, GroupP) = 0 => test.any.err

C21_Witness ==
    /\ test.pc = "TestDH_Errors"
    /\ test.nilKey.err
    /\ test.invalidPub.err
    /\ test.priv # NilKey
    /\ test.peer = Zero32
    /\ test.any = [out |-> Zero32, err |-> TRUE]

MaxBobRuns == IF MaxRegs > MaxKeyGens THEN MaxRegs ELSE MaxKeyGens
MaxAliceRuns == IF MaxSessions > MaxRuns THEN MaxSessions ELSE MaxRuns

\* what the runs of register generate and upload, and the ephemeral keys of
\* the runs of alice, by the number of the run
BobKeysOfRun == [r \in 1..MaxBobRuns |-> BobPrivateKeys(r)]
BobUploadOfRun == [r \in 1..MaxBobRuns |-> BobUpload(r)]
EphemeralOfRun == [n \in 1..MaxAliceRuns |-> GenKeyPair(EphemeralSeed(n))]

PrivateKeysOfOthers ==
    {GenKeyPair(AliceSeed).priv, MalloryKey.priv, MalloryEd, SubSeq(MalloryEd, 1, KeySize)}

PrivateKeys ==
    PrivateKeysOfOthers
    \cup {EphemeralOfRun[n].priv : n \in 1..budget.sessions}
    \cup UNION {{BobKeysOfRun[r].IKbPriv, BobKeysOfRun[r].SPKbPriv, BobKeysOfRun[r].OTKbPriv,
                 BobKeysOfRun[r].EdPriv, SubSeq(BobKeysOfRun[r].EdPriv, 1, KeySize)}
                : r \in 1..budget.regs}

\* every session key derived so far
SessionKeys ==
    {alice.master[i] : i \in DOMAIN alice.master}
    \cup {bob.master[i] : i \in DOMAIN bob.master}
    \cup {e.src.master : e \in {x \in AliceEnvelopes : x.src.by = "alice"}}

Secrets == {BytesBlob(k) : k \in PrivateKeys} \cup SessionKeys

\* the byte strings a bundle and an envelope carry
BundleCarries(b) ==
    {BytesBlob(DecodeString(b.IK).raw), BytesBlob(DecodeString(b.SPK).raw),
     BytesBlob(DecodeString(b.OTK).raw), b.Ed25519.hexOf, b.Sig.hexOf}

EnvelopeCarries(m) ==
    {BytesBlob(DecodeString(m.AliceIK).raw), BytesBlob(DecodeString(m.AliceEKa).raw),
     m.Nonce.hexOf, m.Ciphertext.hexOf}

\* the bundles and envelopes sent to the server so far by register and by
\* alice, whether stored or not, and those the server stores or has handed out
SentBundles ==
    {BobUploadOfRun[r] : r \in 1..budget.regs}
    \cup UNION {{rdbBundle[u][i] : i \in DOMAIN rdbBundle[u]} : u \in Users}

SentEnvelopes ==
    (IF alice.ciphertext # None THEN {AliceMessage(alice)} ELSE {})
    \cup {e.msg : e \in AliceEnvelopes}
    \cup {bob.msg[i] : i \in DOMAIN bob.msg}

\* C23: no private key of any kind and no session key is among the byte
\* strings of a bundle or an envelope that was sent to the server or that the
\* server stores; the key fields carry the public halves of the keys.
C23_NoSecretsSent ==
    [](/\ \A secrets \in {Secrets} :
          /\ \A b \in SentBundles : BundleCarries(b) \cap secrets = {}
          /\ \A m \in SentEnvelopes : EnvelopeCarries(m) \cap secrets = {}
       /\ \A r \in 1..budget.regs :
            LET sent == BobUploadOfRun[r]
                keys == BobKeysOfRun[r]
            IN /\ decode32(sent.IK).out = PublicKeyOf(keys.IKbPriv)
               /\ decode32(sent.SPK).out = PublicKeyOf(keys.SPKbPriv)
               /\ decode32(sent.OTK).out = PublicKeyOf(keys.OTKbPriv)
               /\ sent.Ed25519.hexOf = BytesBlob(EdPublic(keys.EdPriv))
       /\ alice.ciphertext # None =>
            LET sent == AliceMessage(alice) IN
            /\ decode32(sent.AliceIK).out = PublicKeyOf(alice.alicePriv)
            /\ decode32(sent.AliceEKa).out = PublicKeyOf(alice.privEKa))

C23_Witness ==
    /\ rdbBundle["bob"] = Some(BobUpload(1))
    /\ bob.pc = "Decrypted"
    /\ bob.master # None
    /\ bob.master[1] \in SessionKeys
    /\ bob.msg[1] = AliceMessage(alice)
    /\ EnvelopeCarries(bob.msg[1]) \cap Secrets = {}

\* the identity key pair alice generates on her first run
AliceIdentity == GenKeyPair(AliceSeed)

C25_OncePerKeyFile ==
    /\ [][BobRegisterRefused =>
            /\ bob'.pc = "Failed"
            /\ bob'.err = "KeysAlreadyExist"
            /\ bobKeyFile' = bobKeyFile
            /\ rdbBundle' = rdbBundle
            /\ stats' = stats
            /\ budget' = budget]_vars
    /\ [][budget'.regs > budget.regs => bobKeyFile = None]_vars
    /\ [](budget.regs <= budget.deleted + 1)

\* C26 as stated: the server answers a bundle request with not-found only
\* when no bundle is stored for the user, and a dequeue with empty only when
\* the queue of the user is empty; so a run of alice ends with bundle-not-found
\* only when bob has no bundle, and a check of bob with no-message only when
\* his queue is empty.
C26_FailuresSurface ==
    [][/\ (AliceRun /\ alice'.err = "BundleNotFound") => rdbBundle["bob"] = None
       /\ (BobCheck /\ bob'.pc = "NoMessage") => rdbMessages["bob"] = <<>>
       /\ \A u \in Users, up \in BOOLEAN :
            /\ bundleHandler(u, up).status = 404 => rdbBundle[u] = None
            /\ LPop(u, up).status = 404 => rdbMessages[u] = <<>>]_vars

\* a string of exactly 64 hex digits (two per byte of a key), of either case
ValidHexKey(h) ==
    /\ Len(h) = 2 * KeySize
    /\ \A i \in DOMAIN h : \E d \in 1..16 : h[i] = HexDigits[d] \/ h[i] = UpperDigits[d]

\* C27: encode32 of a [32]byte is a string of 64 hex digits and decode32 of
\* it succeeds and gives the [32]byte back; decode32 and ValidatePublicKey
\* succeed on a string exactly when it is 64 hex digits, and then decode32
\* gives the bytes the digits spell.
C27_Encode32RoundTrip ==
    test.pc = "TestEncodeDecode32" =>
        /\ Len(test.encoded) = 2 * KeySize
        /\ ValidHexKey(test.encoded)
        /\ ~test.decoded.err
        /\ test.decoded.out = test.original
        /\ test.result.err <=> ~ValidHexKey(test.input)
        /\ test.invalid <=> ~ValidHexKey(test.input)
        /\ ~test.result.err =>
             \A i \in 1..KeySize :
                test.result.out[i] = 16 * FromHexChar(test.input[2 * i - 1])
                                       + FromHexChar(test.input[2 * i])

C27_Witness ==
    /\ test.pc = "TestEncodeDecode32"
    /\ test.decoded.out = test.original
    /\ test.original # Zero32
    /\ Len(test.input) = 2 * KeySize + 2
    /\ test.result.err
    /\ test.invalid

\* the states of main in their order, and the steps between them
SessionOrder == <<"Start", "BundleFetched", "Verified", "SecretDerived", "Encrypted", "Sent">>

SessionSteps ==
    {<<SessionOrder[i], SessionOrder[i + 1]>> : i \in 1..Len(SessionOrder) - 1}
    \cup {<<SessionOrder[i], "Failed">> : i \in 1..Len(SessionOrder) - 1}

\* where the step that is taken leaves from: a run of main begins in Start
LeavesFrom == IF budget'.sessions # budget.sessions THEN "Start" ELSE alice.pc

\* what main has done when it is about to send: the bundle was fetched, its
\* signature verifies, the four DH values were computed without an error,
\* the key is derived from them and the plaintext is sealed under it
ReadyToSend(a) ==
    /\ a.pc = "Encrypted"
    /\ a.bobBundle # None
    /\ LET b == a.bobBundle[1]
           spk == decode32(b.SPK)
           dhs == AliceDHs(a.alicePriv, a.privEKa, decode32(b.IK).out, spk.out,
                           decode32(b.OTK).out)
       IN /\ ~spk.panic
          /\ Verify(HexDecodeBlob(b.Ed25519).raw, spk.out, HexDecodeBlob(b.Sig).raw).ok
          /\ \A i \in 1..4 : ~dhs[i].err
          /\ a.dh = <<dhs[1].out, dhs[2].out, dhs[3].out, dhs[4].out>>
          /\ a.master = Some(KDF(a.dh))
          /\ a.ciphertext = Some(Seal(a.master[1], a.nonce, a.plaintext))

\* C28: the session of the initiator goes through Start, BundleFetched,
\* Verified, SecretDerived, Encrypted, Sent one after the other; an envelope
\* is enqueued only by a session that fetched the bundle, verified its
\* signature, computed the four DH values without an error, derived the key
\* and sealed the plaintext; a step that fails enqueues nothing and a failed
\* session enqueues nothing later.
C28_SessionOrder ==
    /\ [][alice' # alice => <<LeavesFrom, alice'.pc>> \in SessionSteps]_vars
    /\ [][rdbMessages' # rdbMessages =>
            /\ ReadyToSend(alice)
            /\ alice'.pc = "Sent"
            /\ Len(rdbMessages'["bob"]) = Len(rdbMessages["bob"]) + 1
            /\ SubSeq(rdbMessages'["bob"], 1, Len(rdbMessages["bob"])) = rdbMessages["bob"]
            /\ rdbMessages'["bob"][Len(rdbMessages'["bob"])].msg = AliceMessage(alice)]_vars
    /\ [][alice'.pc = "Failed" => rdbMessages' = rdbMessages]_vars
    /\ [](alice.pc \in {"SecretDerived", "Encrypted", "Sent"} => Len(alice.dh) = 4)

C28_Witness ==
    /\ alice.pc = "Sent"
    /\ budget.sessions = 2
    /\ budget.forged = 1
    /\ Len(rdbMessages["bob"]) = 1

\* a public key field that is absent, is not hex, is not the hex of exactly
\* 32 bytes, or is the zero point
BadPeerKey(h) ==
    LET d == DecodeString(h) IN d.err \/ Len(d.raw) # KeySize \/ d.raw = Zero32

\* C29 as stated: when the envelope bob dequeued carries an identity key or
\* an ephemeral key of the initiator that is absent, malformed or the zero
\* point, or a private key of bob did not load, the check ends in Failed at
\* the DH step (or at the decoding before it) with no key derived and no
\* decryption attempted, and the queue is left as the dequeue left it.
C29_ResponderDHFails ==
    [][(/\ BobReceive
        /\ bob'.msg # None
        /\ \/ BadPeerKey(bob'.msg[1].AliceIK)
           \/ BadPeerKey(bob'.msg[1].AliceEKa)
           \/ NilKey \in {bob.IKbPriv, bob.SPKbPriv, bob.OTKbPriv})
       => /\ bob'.pc = "Failed"
          /\ bob'.err \in {"DH1", "DH2", "DH3", "DH4", "Panic"}
          /\ bob'.master = None
          /\ Len(bob'.dh) < 4
          /\ rdbMessages' = rdbMessages]_vars

\* the envelope bob dequeued was built by alice from the bundle of a
\* registration before his latest one
StaleEnvelope ==
    /\ FromAlice
    /\ \E k \in 1..budget.regs - 1 : FetchedBundle = BobUpload(k)

\* C30: when bob has deleted his key file and registered again after alice
\* fetched the bundle of the registration before, the envelope alice sends
\* does not open: the check derives another key than the one alice sealed
\* under, ends in the decryption failure with no plaintext, and the envelope
\* is gone from the queue.
C30_StaleBundle ==
    (StaleEnvelope /\ BobDone) =>
        /\ bob.pc = "Failed"
        /\ bob.err = "DecryptionFailed"
        /\ bob.master # None
        /\ bob.master[1] # bob.popped[1].src.master
        /\ bob.plaintext = NoBytes
        /\ \A u \in Users : \A i \in DOMAIN QueueIds(u) : QueueIds(u)[i] # bob.popped[1].id
        /\ \A i \in DOMAIN rdbMessages["bob"] : rdbMessages["bob"][i].msg # bob.popped[1].msg

C30_Witness ==
    /\ StaleEnvelope
    /\ BobDone
    /\ bob.err = "DecryptionFailed"
    /\ budget.deleted = 1
    /\ budget.regs = 2
    /\ FetchedBundle = BobUpload(1)
    /\ rdbBundle["bob"] = Some(BobUpload(2))
    /\ BobHolds(BobUpload(2))
    /\ alice.pc = "Sent"

\* the private keys in the key file are those of the public keys of the bundle
KeyFileOf(file, bundle) ==
    LET keys == BobLoadedKeys(file) IN
    /\ PublicKeyOf(NewPrivateKey(keys.IKbPriv)) = decode32(bundle.IK).out
    /\ PublicKeyOf(NewPrivateKey(keys.SPKbPriv)) = decode32(bundle.SPK).out
    /\ PublicKeyOf(NewPrivateKey(keys.OTKbPriv)) = decode32(bundle.OTK).out

\* C31 as stated: after a run of register that generated keys, the key file
\* exists exactly when the server stores the bundle of the keys in it; a run
\* whose upload failed leaves no key file, and a run that reports success
\* has saved the private keys of the bundle it published.
C31_KeyFileMatchesBundle ==
    [][budget'.regs > budget.regs =>
         /\ bobKeyFile' # None <=>
              /\ rdbBundle'["bob"] # None
              /\ rdbBundle'["bob"] = Some(BobUpload(budget'.regs))
         /\ bobKeyFile' # None => KeyFileOf(bobKeyFile'[1], BobUpload(budget'.regs))
         /\ bob'.err = "RegistrationFailed" => bobKeyFile' = None
         /\ bob'.pc = "Registered" =>
              /\ bobKeyFile' # None
              /\ KeyFileOf(bobKeyFile'[1], rdbBundle'["bob"][1])]_vars

\* json.Unmarshal of the key file fails
Unreadable(blob) == \E f \in DOMAIN blob : Base64Decode(blob[f]).err

\* C32: a check that finds the key file missing or unreadable ends before it
\* sends a request: it has no status of a response and no envelope, and the
\* queues, the record of dequeues, the bundles and the counters are as before.
C32_KeysBeforePoll ==
    [][(BobCheck /\ (bobKeyFile = None \/ Unreadable(bobKeyFile[1]))) =>
          /\ bob'.pc = "Failed"
          /\ bob'.err \in {"KeysNotFound", "Panic"}
          /\ bob'.status = 0
          /\ bob'.popped = None
          /\ bob'.msg = None
          /\ rdbMessages' = rdbMessages
          /\ popLog' = popLog
          /\ rdbBundle' = rdbBundle
          /\ stats' = stats]_vars

C32_Witness ==
    /\ bob.pc = "Failed"
    /\ bob.err = "Panic"
    /\ bobKeyFile # None
    /\ Unreadable(bobKeyFile[1])
    /\ Len(rdbMessages["bob"]) = 2
    /\ popLog["bob"] = <<>>

\* the queue of bob was emptied and nothing more will be enqueued for him
Drained ==
    /\ rdbMessages["bob"] = <<>>
    /\ popLog["bob"] # <<>>
    /\ budget.sessions = MaxRuns
    /\ alice.pc # "Encrypted"

SealedEnvelope(e) ==
    LET nonce == HexDecodeBlob(e.msg.Nonce)
        ciphertext == HexDecodeBlob(e.msg.Ciphertext)
    IN /\ ValidHexKey(e.msg.AliceIK)
       /\ ValidHexKey(e.msg.AliceEKa)
       /\ ~nonce.err
       /\ nonce.raw.kind = "bytes"
       /\ BlobLen(nonce.raw) = NonceSize
       /\ ~ciphertext.err
       /\ e.src.master.kind = "sha256"
       /\ Len(e.src.master.a) = 4 * KeySize
       /\ ciphertext.raw = Seal(e.src.master, nonce.raw.a, e.src.pt)

\* C34: every envelope in every queue carries the seal of its message under
\* a session key derived by X3DH, the 32-byte identity and ephemeral keys of
\* the initiator and the nonce, whichever program enqueued it.
C34_NothingInTheClear ==
    \A u \in Users : \A i \in DOMAIN rdbMessages[u] : SealedEnvelope(rdbMessages[u][i])

\* C35: what /stats reports tracks the requests served: the bundles counted
\* are the /register requests answered with 200, the messages received are
\* the envelopes enqueued through /send, the messages delivered are the
\* envelopes that /messages returned.
C35_StatsTrack ==
    /\ GetStats.TotalBundlesRegistered = budget.registered
    /\ GetStats.TotalMessagesReceived = nextId
    /\ GetStats.TotalMessagesDelivered = Len(Delivered)

====
